---- MODULE Spec2Model ----
(***************************************************************************)
(* Model of the ENR1M SDK (tokenprime/prime_sdk): the pure helpers of      *)
(* src/src/utils/helpers.ts and the asynchronous client facade             *)
(* ENR1MClient (src/unnamed/part_003).                                     *)
(*                                                                         *)
(* Strings are sequences of one-character strings, so that formatting and  *)
(* parsing are computed digit by digit as the code computes them.          *)
(* A call's outcome is a record [tag, value]: tag "return" with the value  *)
(* returned, or tag "throw" with the error thrown.                         *)
(***************************************************************************)
EXTENDS Integers, Sequences, FiniteSets, TLC

VARIABLES
    shareIn,     \* calculateUserShare: [totalDistribution, eligibleSupply] of the session
    shareCall,   \* calculateUserShare: the latest call [userBalance, out]
    sharePrev,   \* calculateUserShare: the call before the latest
    codecIn,     \* formatTokenDisplay: [amount, decimals]
    display,     \* formatTokenDisplay: the string returned, or NoCall
    parsed,      \* parseUnits: outcome of parsing `display`, or NoCall
    pctIn,       \* formatPercentage: [numerator, denominator, decimals]
    pctOut,      \* formatPercentage: the string returned, or NoCall
    errIn,       \* parseContractError: the value passed in
    errOut,      \* parseContractError: outcome, or NoCall
    apyIn,       \* calculateAPY: the arguments of the call
    apyOut,      \* calculateAPY: outcome, or NoCall
    parseIn,     \* parseTokenAmount / parseUSDCAmount: [fn, whole, dot, fraction, amount]
    parseOut,    \* parseTokenAmount / parseUSDCAmount: outcome, or NoCall
    validIn,     \* validators: the text and the integer handed in
    validOut,    \* validators: [fn, value] of the call made, or NoCall
    factoryIn,   \* createENR1MClient: config [chainId, addresses]
    factoryOut,  \* createENR1MClient: getAddresses() of the client built, or NoCall
    wallet,      \* ENR1MClient: config.walletClient is present
    chain,       \* the distributor's state: the snapshots the account has claimed
    frame        \* ENR1MClient: the call in flight of each caller

shareVars == <<shareIn, shareCall, sharePrev>>
codecVars == <<codecIn, display, parsed>>
pctVars   == <<pctIn, pctOut>>
errVars   == <<errIn, errOut>>
apyVars   == <<apyIn, apyOut>>
parseVars == <<parseIn, parseOut>>
validVars == <<validIn, validOut>>
factoryVars == <<factoryIn, factoryOut>>
clientVars == <<wallet, chain, frame>>
vars      == <<shareVars, codecVars, pctVars, errVars, apyVars, parseVars, validVars,
               factoryVars, clientVars>>

\* ---------------------------------------------------------------- bounds
MaxBalance  == 6    \* userBalance and eligibleSupply range over 0..MaxBalance
MaxPool     == 5    \* totalDistribution ranges over 0..MaxPool

\* ------------------------------------------------------- outcomes of calls
NoCall == [tag |-> "none", value |-> "none"]
Return(v) == [tag |-> "return", value |-> v]
Throw(e) == [tag |-> "throw", value |-> e]

Returned(o) == o.tag = "return"
Threw(o) == o.tag = "throw"

\* BigInt division: the quotient truncated, RangeError on a zero divisor.
\* Operands here are non-negative, where truncation and floor agree.
BigIntDiv(a, b) == IF b = 0 THEN Throw("RangeError") ELSE Return(a \div b)

\* ============================================================ calculator
calculateUserShare_DivideFirst(userBalance, totalDistribution, eligibleSupply) ==
    IF eligibleSupply = 0 THEN Return(0)
    ELSE LET q == BigIntDiv(totalDistribution, eligibleSupply)
         IN  IF Threw(q) THEN q ELSE Return(q.value * userBalance)

calculateUserShare_SwappedOperands(userBalance, totalDistribution, eligibleSupply) ==
    IF eligibleSupply = 0 THEN Return(0)
    ELSE BigIntDiv(eligibleSupply * userBalance, totalDistribution)

calculateUserShare_Remainder(userBalance, totalDistribution, eligibleSupply) ==
    IF eligibleSupply = 0 THEN Return(0)
    ELSE Return((totalDistribution * userBalance) % eligibleSupply)

calculateUserShare(userBalance, totalDistribution, eligibleSupply) ==
    IF eligibleSupply = 0 THEN Return(0)
    ELSE BigIntDiv(totalDistribution * userBalance, eligibleSupply)

\* No call of calculateUserShare made yet.
NoShareCall == [userBalance |-> 0, out |-> NoCall]

\* Idle values of the calculator's variables in the other specifications.
ShareIdle ==
    /\ shareIn = [totalDistribution |-> 0, eligibleSupply |-> 0]
    /\ shareCall = NoShareCall
    /\ sharePrev = NoShareCall

ShareInit ==
    /\ shareIn \in [totalDistribution : 0..MaxPool, eligibleSupply : 0..MaxBalance]
    /\ shareCall = NoShareCall
    /\ sharePrev = NoShareCall

\* One call of calculateUserShare with the session's pool and supply.
CalculateUserShare ==
    \E userBalance \in 0..MaxBalance :
        /\ shareCall' = [userBalance |-> userBalance,
                         out |-> calculateUserShare(userBalance,
                                                    shareIn.totalDistribution,
                                                    shareIn.eligibleSupply)]
        /\ sharePrev' = shareCall
        /\ UNCHANGED shareIn
\* ================================================================ strings
Digits == <<"0", "1", "2", "3", "4", "5", "6", "7", "8", "9">>

RECURSIVE Pow10(_)
Pow10(n) == IF n = 0 THEN 1 ELSE 10 * Pow10(n - 1)

\* BigInt.prototype.toString() of a non-negative value.
RECURSIVE BigIntToString(_)
BigIntToString(n) ==
    IF n < 10 THEN <<Digits[n + 1]>>
    ELSE BigIntToString(n \div 10) \o <<Digits[(n % 10) + 1]>>

\* String.prototype.padStart(targetLength, ch)
RECURSIVE padStart(_, _, _)
padStart(s, targetLength, ch) ==
    IF Len(s) >= targetLength THEN s ELSE padStart(<<ch>> \o s, targetLength, ch)

\* String.prototype.padEnd(targetLength, ch)
RECURSIVE padEnd(_, _, _)
padEnd(s, targetLength, ch) ==
    IF Len(s) >= targetLength THEN s ELSE padEnd(s \o <<ch>>, targetLength, ch)

\* s.replace(/0+$/, '')
RECURSIVE StripTrailingZeros(_)
StripTrailingZeros(s) ==
    IF s # <<>> /\ s[Len(s)] = "0" THEN StripTrailingZeros(SubSeq(s, 1, Len(s) - 1))
    ELSE s

\* String.prototype.includes(sub)
Includes(s, sub) ==
    \E i \in 0..(Len(s) - Len(sub)) : SubSeq(s, i + 1, i + Len(sub)) = sub

\* Index of the first "." of s, or 0.
RECURSIVE IndexOfDot(_, _)
IndexOfDot(s, i) ==
    IF i > Len(s) THEN 0 ELSE IF s[i] = "." THEN i ELSE IndexOfDot(s, i + 1)

IsDigit(ch) == \E d \in 1..10 : Digits[d] = ch

AllDigits(s) == \A i \in 1..Len(s) : IsDigit(s[i])

DigitValue(ch) == (CHOOSE d \in 1..10 : Digits[d] = ch) - 1

\* BigInt(s) of a string of decimal digits; BigInt("") is 0n.
RECURSIVE BigIntOfString(_)
BigIntOfString(s) ==
    IF s = <<>> THEN 0
    ELSE 10 * BigIntOfString(SubSeq(s, 1, Len(s) - 1)) + DigitValue(s[Len(s)])

\* ================================================================== codec
MaxAmount   == 1200  \* amounts range over 0..MaxAmount
MaxDecimals == 3     \* decimal exponents range over 0..MaxDecimals

formatTokenDisplay_NoPad(amount, decimals) ==
    LET divisor  == Pow10(decimals)
        whole    == amount \div divisor
        fraction == amount % divisor
    IN  IF fraction = 0 THEN BigIntToString(whole)
        ELSE LET trimmedFraction == StripTrailingZeros(BigIntToString(fraction))
             IN  IF trimmedFraction # <<>>
                 THEN BigIntToString(whole) \o <<".">> \o trimmedFraction
                 ELSE BigIntToString(whole)

formatTokenDisplay_NoTrim(amount, decimals) ==
    LET divisor  == Pow10(decimals)
        whole    == amount \div divisor
        fraction == amount % divisor
    IN  IF fraction = 0 THEN BigIntToString(whole)
        ELSE BigIntToString(whole) \o <<".">>
                 \o padStart(BigIntToString(fraction), decimals, "0")

formatTokenDisplay(amount, decimals) ==
    LET divisor  == Pow10(decimals)
        whole    == amount \div divisor
        fraction == amount % divisor
    IN  IF fraction = 0 THEN BigIntToString(whole)
        ELSE LET fractionStr     == padStart(BigIntToString(fraction), decimals, "0")
                 trimmedFraction == StripTrailingZeros(fractionStr)
             IN  IF trimmedFraction # <<>>
                 THEN BigIntToString(whole) \o <<".">> \o trimmedFraction
                 ELSE BigIntToString(whole)

formatUSDCDisplay(amount) == formatTokenDisplay(amount, 6)

\* Round half up of the digits beyond `decimals`: the carry into the kept part.
RoundsUp(right) == right # <<>> /\ DigitValue(right[1]) >= 5

\* viem's parseUnits(value, decimals), as called by parseTokenAmount (18) and
\* parseUSDCAmount (6): split at ".", strip the fraction's trailing zeros, pad
\* it to `decimals` digits (rounding half up when it is longer), and read
\* integer ++ fraction as one integer.
parseUnits(value, decimals) ==
    LET dot      == IndexOfDot(value, 1)
        integer  == IF dot = 0 THEN value ELSE SubSeq(value, 1, dot - 1)
        rawFrac  == IF dot = 0 THEN <<"0">> ELSE SubSeq(value, dot + 1, Len(value))
        fraction == StripTrailingZeros(rawFrac)
    IN  IF ~(AllDigits(integer) /\ AllDigits(rawFrac))
        THEN Throw("InvalidDecimalNumberError")
        ELSE IF Len(fraction) > decimals
        THEN LET kept  == SubSeq(fraction, 1, decimals)
                 right == SubSeq(fraction, decimals + 1, Len(fraction))
                 carry == IF RoundsUp(right) THEN 1 ELSE 0
             IN  Return(BigIntOfString(integer) * Pow10(decimals)
                            + BigIntOfString(kept) + carry)
        ELSE Return(BigIntOfString(integer \o padEnd(fraction, decimals, "0")))

CodecIdle ==
    /\ codecIn = [amount |-> 0, decimals |-> 0]
    /\ display = NoCall
    /\ parsed = NoCall

CodecInit ==
    /\ codecIn \in [amount : 0..MaxAmount, decimals : 0..MaxDecimals]
    /\ display = NoCall
    /\ parsed = NoCall

FormatTokenDisplay ==
    /\ display.tag = "none"
    /\ display' = Return(formatTokenDisplay(codecIn.amount, codecIn.decimals))
    /\ UNCHANGED <<codecIn, parsed>>

\* parseTokenAmount / parseUSDCAmount applied to the displayed string, at the
\* exponent it was displayed with.
ParseDisplayed ==
    /\ Returned(display)
    /\ parsed.tag = "none"
    /\ parsed' = parseUnits(display.value, codecIn.decimals)
    /\ UNCHANGED <<codecIn, display>>
\* ============================================================= percentage
MaxNumerator   == 12   \* numerators range over 0..MaxNumerator
MaxDenominator == 9    \* denominators range over 0..MaxDenominator
MaxPrecision   == 3    \* precision digits range over 0..MaxPrecision

\* The zero-denominator answer written with the two fraction digits.
formatPercentage_PaddedZero(numerator, denominator, decimals) ==
    IF denominator = 0 THEN <<"0", ".", "0", "0", "%">>
    ELSE LET percentage  == (numerator * 10000) \div denominator
             whole       == percentage \div 100
             fraction    == percentage % 100
             fractionStr == padStart(BigIntToString(fraction), 2, "0")
         IN  IF fraction = 0 THEN BigIntToString(whole) \o <<"%">>
             ELSE BigIntToString(whole) \o <<".">> \o fractionStr \o <<"%">>

\* The `decimals` parameter is accepted and not used: the scale is fixed at
\* 10000 and the fraction at two digits.
formatPercentage(numerator, denominator, decimals) ==
    IF denominator = 0 THEN <<"0", "%">>
    ELSE LET percentage  == (numerator * 10000) \div denominator
             whole       == percentage \div 100
             fraction    == percentage % 100
             fractionStr == padStart(BigIntToString(fraction), 2, "0")
         IN  IF fraction = 0 THEN BigIntToString(whole) \o <<"%">>
             ELSE BigIntToString(whole) \o <<".">> \o fractionStr \o <<"%">>

PctIdle ==
    /\ pctIn = [numerator |-> 0, denominator |-> 0, decimals |-> 0]
    /\ pctOut = NoCall

PctInit ==
    /\ pctIn \in [numerator : 0..MaxNumerator, denominator : 0..MaxDenominator,
                  decimals : 0..MaxPrecision]
    /\ pctOut = NoCall

FormatPercentage ==
    /\ pctOut.tag = "none"
    /\ pctOut' = Return(formatPercentage(pctIn.numerator, pctIn.denominator,
                                         pctIn.decimals))
    /\ UNCHANGED pctIn

\* ================================================================== yield
\* JavaScript numbers, kept exact: a fraction num/den in lowest terms, den > 0.
\* (The rounding of IEEE doubles is not modelled.) NaN and Infinity are what a
\* division by zero gives.
RECURSIVE GCD(_, _)
GCD(a, b) == IF b = 0 THEN a ELSE GCD(b, a % b)

Number(num, den) ==
    LET g == GCD(num, den) IN [num |-> num \div g, den |-> den \div g]

Zero == [num |-> 0, den |-> 1]
NaN == [num |-> 0, den |-> 0]
Infinity == [num |-> 1, den |-> 0]

IsFinite(x) == x.den # 0

\* Number(s) of a string formatTokenDisplay returns: digits, and after an
\* optional "." more digits.
NumberOfString(s) ==
    LET dot      == IndexOfDot(s, 1)
        whole    == IF dot = 0 THEN s ELSE SubSeq(s, 1, dot - 1)
        fraction == IF dot = 0 THEN <<>> ELSE SubSeq(s, dot + 1, Len(s))
    IN  Number(BigIntOfString(whole \o fraction), Pow10(Len(fraction)))

\* x * y of two non-negative numbers
NumberTimes(x, y) ==
    IF ~IsFinite(x) \/ ~IsFinite(y)
    THEN IF x = NaN \/ y = NaN \/ x = Zero \/ y = Zero THEN NaN ELSE Infinity
    ELSE Number(x.num * y.num, x.den * y.den)

\* x / y of two non-negative finite numbers: 0/0 is NaN, x/0 is Infinity
NumberOver(x, y) ==
    IF y.num = 0 THEN (IF x.num = 0 THEN NaN ELSE Infinity)
    ELSE Number(x.num * y.den, x.den * y.num)

DefaultDecimals == 2   \* formatTokenDisplay's default exponent: 18 in the source,
                       \* scaled down to keep 10^exponent within TLC's integers
MaxPrice   == 2        \* tokenPriceUSD ranges over n/d, n in 0..MaxPrice, d in 1..MaxPrice
MaxPeriods == 2        \* a periodsPerYear argument ranges over 1..MaxPeriods

\* The yield computed without the guard on the holder's USD value.
calculateAPY_NoValueGuard(monthlyDistribution, userBalance, eligibleSupply, tokenPriceUSD) ==
    IF eligibleSupply = 0 \/ userBalance = 0 THEN Zero
    ELSE LET userShare      == calculateUserShare(userBalance, monthlyDistribution,
                                                  eligibleSupply).value
             userShareUSD   == NumberOfString(formatUSDCDisplay(userShare))
             userBalanceUSD ==
                 NumberTimes(NumberOfString(formatTokenDisplay(userBalance,
                                                               DefaultDecimals)),
                             tokenPriceUSD)
             monthlyReturn  == NumberOver(userShareUSD, userBalanceUSD)
             annualReturn   == NumberTimes(monthlyReturn, Number(12, 1))
         IN  NumberTimes(annualReturn, Number(100, 1))

calculateAPY(monthlyDistribution, userBalance, eligibleSupply, tokenPriceUSD) ==
    IF eligibleSupply = 0 \/ userBalance = 0 THEN Zero
    ELSE LET userShare      == calculateUserShare(userBalance, monthlyDistribution,
                                                  eligibleSupply).value
             userShareUSD   == NumberOfString(formatUSDCDisplay(userShare))
             userBalanceUSD ==
                 NumberTimes(NumberOfString(formatTokenDisplay(userBalance,
                                                               DefaultDecimals)),
                             tokenPriceUSD)
         IN  IF userBalanceUSD = Zero THEN Zero
             ELSE LET monthlyReturn == NumberOver(userShareUSD, userBalanceUSD)
                      annualReturn  == NumberTimes(monthlyReturn, Number(12, 1))
                  IN  NumberTimes(annualReturn, Number(100, 1))

\* periodsPerYear 0 stands for a call that passes no fifth argument.
NoPeriods == 0

ApyIdle ==
    /\ apyIn = [monthlyDistribution |-> 0, userBalance |-> 0, eligibleSupply |-> 0,
                tokenPriceUSD |-> Zero, periodsPerYear |-> NoPeriods]
    /\ apyOut = NoCall

ApyInit ==
    /\ \E monthlyDistribution \in 0..MaxPool, userBalance \in 0..MaxBalance,
          eligibleSupply \in 0..MaxBalance, n \in 0..MaxPrice, d \in 1..MaxPrice,
          periodsPerYear \in {NoPeriods} \cup 1..MaxPeriods :
        apyIn = [monthlyDistribution |-> monthlyDistribution,
                 userBalance |-> userBalance, eligibleSupply |-> eligibleSupply,
                 tokenPriceUSD |-> Number(n, d), periodsPerYear |-> periodsPerYear]
    /\ apyOut = NoCall

\* calculateAPY(monthlyDistribution, userBalance, eligibleSupply, tokenPriceUSD
\* [, periodsPerYear]): the function declares four parameters, a fifth argument
\* is dropped by the call.
CalculateAPY ==
    /\ apyOut.tag = "none"
    /\ apyOut' = Return(calculateAPY(apyIn.monthlyDistribution, apyIn.userBalance,
                                     apyIn.eligibleSupply, apyIn.tokenPriceUSD))
    /\ UNCHANGED apyIn

\* ========================================================= amount parsing
MaxWhole          == 12   \* the integer part of a numeral ranges over 0..MaxWhole
MaxFractionDigits == 2    \* a numeral has up to MaxFractionDigits fraction digits

\* parseUSDCAmount at the token's exponent.
parseUSDCAmount_TokenExponent(amount) == parseUnits(amount, DefaultDecimals)

\* parseEther(amount): parseUnits at the token's exponent
parseTokenAmount(amount) == parseUnits(amount, DefaultDecimals)

parseUSDCAmount(amount) == parseUnits(amount, 6)

RECURSIVE DigitStrings(_)
DigitStrings(n) ==
    IF n = 0 THEN {<<>>}
    ELSE DigitStrings(n - 1)
             \cup {Append(q, Digits[d]) : q \in DigitStrings(n - 1), d \in 1..10}

ParseIdle ==
    /\ parseIn = [fn |-> "parseUSDCAmount", whole |-> 0, dot |-> FALSE,
                  fraction |-> <<>>, amount |-> <<"0">>]
    /\ parseOut = NoCall

\* The caller's numeral: an integer part, and optionally a "." and fraction digits.
ParseInit ==
    /\ \E fn \in {"parseTokenAmount", "parseUSDCAmount"}, whole \in 0..MaxWhole,
          dot \in BOOLEAN, fraction \in DigitStrings(MaxFractionDigits) :
        /\ (~dot) => fraction = <<>>
        /\ parseIn = [fn |-> fn, whole |-> whole, dot |-> dot, fraction |-> fraction,
                      amount |-> BigIntToString(whole)
                                     \o (IF dot THEN <<".">> ELSE <<>>) \o fraction]
    /\ parseOut = NoCall

ParseAmount ==
    /\ parseOut.tag = "none"
    /\ parseOut' = IF parseIn.fn = "parseTokenAmount"
                   THEN parseTokenAmount(parseIn.amount)
                   ELSE parseUSDCAmount(parseIn.amount)
    /\ UNCHANGED parseIn

\* ============================================================= validators
AddressDigits == 40   \* /^0x[a-fA-F0-9]{40}$/
HashDigits    == 64   \* /^0x[a-fA-F0-9]{64}$/
MaxBodyLen    == 65   \* the text after the prefix has 0..MaxBodyLen characters
MaxMagnitude  == 3    \* integers range over -MaxMagnitude..MaxMagnitude

\* [a-fA-F0-9]
HexClass ==
    {"a", "b", "c", "d", "e", "f", "A", "B", "C", "D", "E", "F",
     "0", "1", "2", "3", "4", "5", "6", "7", "8", "9"}

\* /^0x[a-fA-F0-9]{count}$/.test(text)
TestHexPattern(text, count) ==
    /\ Len(text) = 2 + count
    /\ text[1] = "0"
    /\ text[2] = "x"
    /\ \A i \in 3..Len(text) : text[i] \in HexClass

\* The pattern without its end anchor: /^0x[a-fA-F0-9]{40}/
isValidAddress_NoEndAnchor(address) ==
    /\ Len(address) >= 2 + AddressDigits
    /\ address[1] = "0"
    /\ address[2] = "x"
    /\ \A i \in 3..(2 + AddressDigits) : address[i] \in HexClass

isValidAddress(address) == TestHexPattern(address, AddressDigits)

isValidHash(hash) == TestHexPattern(hash, HashDigits)

\* snapshotId >= 0n
validateSnapshotId_AllowsZero(snapshotId) == snapshotId >= 0

validateSnapshotId(snapshotId) == snapshotId > 0

validateAmount(amount) == amount > 0

\* Texts handed to the validators: a prefix, then `len` characters "a" of which
\* the one at `pos` is `ch`.
Prefixes == {<<"0", "x">>, <<"0", "X">>, <<>>, <<"x">>, <<"0", "0", "x">>}

BodyChars == {"7", "c", "E", "g", "G", "x", " "}

BodyOf(len, pos, ch) == [i \in 1..len |-> IF i = pos THEN ch ELSE "a"]

NoText == [prefix |-> <<>>, len |-> 0, pos |-> 0, ch |-> "a", text |-> <<>>]

ValidIdle ==
    /\ validIn = [text |-> NoText, n |-> 0]
    /\ validOut = NoCall

ValidInit ==
    /\ \E prefix \in Prefixes, len \in 0..MaxBodyLen, ch \in BodyChars,
          n \in (0 - MaxMagnitude)..MaxMagnitude :
        \E pos \in {IF len = 0 THEN 0 ELSE 1, (len + 1) \div 2, len} :
            /\ (n # 0) => (prefix = <<>> /\ len = 0 /\ ch = "7")
            /\ validIn = [text |-> [prefix |-> prefix, len |-> len, pos |-> pos,
                                    ch |-> ch,
                                    text |-> prefix \o BodyOf(len, pos, ch)],
                          n |-> n]
    /\ validOut = NoCall

IsValidAddress ==
    /\ validOut.tag = "none"
    /\ validOut' = Return([fn |-> "isValidAddress",
                           value |-> isValidAddress(validIn.text.text)])
    /\ UNCHANGED validIn

IsValidHash ==
    /\ validOut.tag = "none"
    /\ validOut' = Return([fn |-> "isValidHash",
                           value |-> isValidHash(validIn.text.text)])
    /\ UNCHANGED validIn

ValidateSnapshotId ==
    /\ validOut.tag = "none"
    /\ validOut' = Return([fn |-> "validateSnapshotId",
                           value |-> validateSnapshotId(validIn.n)])
    /\ UNCHANGED validIn

ValidateAmount ==
    /\ validOut.tag = "none"
    /\ validOut' = Return([fn |-> "validateAmount", value |-> validateAmount(validIn.n)])
    /\ UNCHANGED validIn

\* ====================================================== error classifier
\* "Pausable: paused"
PausablePaused ==
    <<"P", "a", "u", "s", "a", "b", "l", "e", ":", " ", "p", "a", "u", "s", "e", "d">>

\* "AccessControl:"
AccessControl ==
    <<"A", "c", "c", "e", "s", "s", "C", "o", "n", "t", "r", "o", "l", ":">>

\* "Already claimed"
AlreadyClaimed ==
    <<"A", "l", "r", "e", "a", "d", "y", " ", "c", "l", "a", "i", "m", "e", "d">>

\* "Nothing to claim"
NothingToClaim ==
    <<"N", "o", "t", "h", "i", "n", "g", " ", "t", "o", " ", "c", "l", "a", "i", "m">>

\* "Deadline not reached"
DeadlineNotReached ==
    <<"D", "e", "a", "d", "l", "i", "n", "e", " ", "n", "o", "t", " ", "r", "e", "a",
      "c", "h", "e", "d">>

\* "Insufficient balance"
InsufficientBalance ==
    <<"I", "n", "s", "u", "f", "f", "i", "c", "i", "e", "n", "t", " ", "b", "a", "l",
      "a", "n", "c", "e">>

\* "Contract is currently paused"
SentencePaused ==
    <<"C", "o", "n", "t", "r", "a", "c", "t", " ", "i", "s", " ", "c", "u", "r", "r",
      "e", "n", "t", "l", "y", " ", "p", "a", "u", "s", "e", "d">>

\* "Insufficient permissions for this operation"
SentencePermissions ==
    <<"I", "n", "s", "u", "f", "f", "i", "c", "i", "e", "n", "t", " ", "p", "e", "r",
      "m", "i", "s", "s", "i", "o", "n", "s", " ", "f", "o", "r", " ", "t", "h", "i",
      "s", " ", "o", "p", "e", "r", "a", "t", "i", "o", "n">>

\* "You have already claimed for this snapshot"
SentenceAlreadyClaimed ==
    <<"Y", "o", "u", " ", "h", "a", "v", "e", " ", "a", "l", "r", "e", "a", "d", "y",
      " ", "c", "l", "a", "i", "m", "e", "d", " ", "f", "o", "r", " ", "t", "h", "i",
      "s", " ", "s", "n", "a", "p", "s", "h", "o", "t">>

\* "No claimable amount available"
SentenceNothingToClaim ==
    <<"N", "o", " ", "c", "l", "a", "i", "m", "a", "b", "l", "e", " ", "a", "m", "o",
      "u", "n", "t", " ", "a", "v", "a", "i", "l", "a", "b", "l", "e">>

\* "Claim deadline has not been reached yet"
SentenceDeadline ==
    <<"C", "l", "a", "i", "m", " ", "d", "e", "a", "d", "l", "i", "n", "e", " ", "h",
      "a", "s", " ", "n", "o", "t", " ", "b", "e", "e", "n", " ", "r", "e", "a", "c",
      "h", "e", "d", " ", "y", "e", "t">>

\* "Insufficient balance for this transaction"
SentenceInsufficient ==
    <<"I", "n", "s", "u", "f", "f", "i", "c", "i", "e", "n", "t", " ", "b", "a", "l",
      "a", "n", "c", "e", " ", "f", "o", "r", " ", "t", "h", "i", "s", " ", "t", "r",
      "a", "n", "s", "a", "c", "t", "i", "o", "n">>

\* "Unknown error occurred"
SentenceUnknown ==
    <<"U", "n", "k", "n", "o", "w", "n", " ", "e", "r", "r", "o", "r", " ", "o", "c",
      "c", "u", "r", "r", "e", "d">>

\* "already claimed"
LowerAlreadyClaimed ==
    <<"a", "l", "r", "e", "a", "d", "y", " ", "c", "l", "a", "i", "m", "e", "d">>

\* "reverted: "
RevertedPrefix ==
    <<"r", "e", "v", "e", "r", "t", "e", "d", ":", " ">>

MaxFragments == 2    \* messages are built from 1..MaxFragments fragments

Fragments ==
    {PausablePaused, AccessControl, AlreadyClaimed, NothingToClaim, DeadlineNotReached,
     InsufficientBalance, LowerAlreadyClaimed, RevertedPrefix}

RECURSIVE Messages(_)
Messages(n) ==
    IF n = 0 THEN {<<>>}
    ELSE Messages(n - 1) \cup {m \o f : m \in Messages(n - 1), f \in Fragments}

\* JavaScript values: a type tag and, for strings, the characters.
JSString(s) == [type |-> "string", str |-> s]
JSNumber    == [type |-> "number", str |-> <<>>]
JSNull      == [type |-> "null", str |-> <<>>]
JSUndefined == [type |-> "undefined", str |-> <<>>]

\* The values handed to parseContractError: primitives, or an object that may
\* own a `message` property holding any primitive.
Primitives == {JSString(m) : m \in Messages(MaxFragments)}
                  \cup {JSNumber, JSNull, JSUndefined}

ErrorValues ==
    {[type |-> v.type, str |-> v.str, hasMessage |-> FALSE, message |-> JSUndefined] :
         v \in Primitives}
    \cup {[type |-> "object", str |-> <<>>, hasMessage |-> FALSE, message |-> JSUndefined]}
    \cup {[type |-> "object", str |-> <<>>, hasMessage |-> TRUE, message |-> v] :
              v \in Primitives}

\* message.includes(sub): a TypeError unless `message` is a string.
MessageIncludes(message, sub) ==
    IF message.type = "string" THEN Return(Includes(message.str, sub))
    ELSE Throw("TypeError")

\* The classifier without the "Deadline not reached" case.
parseContractError_NoDeadline(error) ==
    IF error.type = "string" THEN Return(JSString(error.str))
    ELSE IF error.type = "object" /\ error.hasMessage
    THEN LET message == error.message
             first   == MessageIncludes(message, PausablePaused)
             has(sub) == MessageIncludes(message, sub).value
         IN  IF Threw(first) THEN first
             ELSE IF has(PausablePaused) THEN Return(JSString(SentencePaused))
             ELSE IF has(AccessControl) THEN Return(JSString(SentencePermissions))
             ELSE IF has(AlreadyClaimed) THEN Return(JSString(SentenceAlreadyClaimed))
             ELSE IF has(NothingToClaim) THEN Return(JSString(SentenceNothingToClaim))
             ELSE IF has(InsufficientBalance) THEN Return(JSString(SentenceInsufficient))
             ELSE Return(message)
    ELSE Return(JSString(SentenceUnknown))

\* The classifier trying "Insufficient balance" first.
parseContractError_BalanceFirst(error) ==
    IF error.type = "string" THEN Return(JSString(error.str))
    ELSE IF error.type = "object" /\ error.hasMessage
    THEN LET message == error.message
             first   == MessageIncludes(message, PausablePaused)
             has(sub) == MessageIncludes(message, sub).value
         IN  IF Threw(first) THEN first
             ELSE IF has(InsufficientBalance) THEN Return(JSString(SentenceInsufficient))
             ELSE IF has(PausablePaused) THEN Return(JSString(SentencePaused))
             ELSE IF has(AccessControl) THEN Return(JSString(SentencePermissions))
             ELSE IF has(AlreadyClaimed) THEN Return(JSString(SentenceAlreadyClaimed))
             ELSE IF has(NothingToClaim) THEN Return(JSString(SentenceNothingToClaim))
             ELSE IF has(DeadlineNotReached) THEN Return(JSString(SentenceDeadline))
             ELSE Return(message)
    ELSE Return(JSString(SentenceUnknown))

parseContractError(error) ==
    IF error.type = "string" THEN Return(JSString(error.str))
    ELSE IF error.type = "object" /\ error.hasMessage
    THEN LET message == error.message
             first   == MessageIncludes(message, PausablePaused)
             has(sub) == MessageIncludes(message, sub).value
         IN  IF Threw(first) THEN first
             ELSE IF has(PausablePaused) THEN Return(JSString(SentencePaused))
             ELSE IF has(AccessControl) THEN Return(JSString(SentencePermissions))
             ELSE IF has(AlreadyClaimed) THEN Return(JSString(SentenceAlreadyClaimed))
             ELSE IF has(NothingToClaim) THEN Return(JSString(SentenceNothingToClaim))
             ELSE IF has(DeadlineNotReached) THEN Return(JSString(SentenceDeadline))
             ELSE IF has(InsufficientBalance) THEN Return(JSString(SentenceInsufficient))
             ELSE Return(message)
    ELSE Return(JSString(SentenceUnknown))

ErrIdle ==
    /\ errIn = [type |-> "undefined", str |-> <<>>, hasMessage |-> FALSE,
                message |-> JSUndefined]
    /\ errOut = NoCall

ErrInit ==
    /\ errIn \in ErrorValues
    /\ errOut = NoCall

ParseContractError ==
    /\ errOut.tag = "none"
    /\ errOut' = parseContractError(errIn)
    /\ UNCHANGED errIn


\* ================================================================= client
MaxSnapshotId == 2   \* snapshot id arguments range over 0..MaxSnapshotId
MaxBatch      == 2   \* claimMultiple takes lists of up to MaxBatch ids
MaxClaimable  == 1   \* amounts and times the contracts answer range over 0..MaxClaimable
MaxUsdc       == 2   \* USDC balances and amount arguments range over 0..MaxUsdc

SnapshotIds == 0..MaxSnapshotId

RECURSIVE SeqsUpTo(_, _)
SeqsUpTo(S, n) ==
    IF n = 0 THEN {<<>>}
    ELSE SeqsUpTo(S, n - 1) \cup {Append(q, x) : q \in SeqsUpTo(S, n - 1), x \in S}

\* ---- errors (src/src/types/contracts.ts)
\* A failure surfaced by the transport: a rejected remote call.
TransportError == [class |-> "TransportError"]

\* new Error(message)
PlainError(message) == [class |-> "Error", message |-> message]

WalletRequired == PlainError("Wallet client required for write operations")

ContractInteractionError(message, contractName, functionName, originalError) ==
    [class |-> "ContractInteractionError", code |-> "CONTRACT_INTERACTION_ERROR",
     message |-> message, contractName |-> contractName,
     functionName |-> functionName, originalError |-> originalError]

InsufficientBalanceError(required, available, token) ==
    [class |-> "InsufficientBalanceError", code |-> "INSUFFICIENT_BALANCE",
     required |-> required, available |-> available, token |-> token]

\* new Date(ms).toISOString() throws it when ms is beyond what a Date holds.
RangeError == [class |-> "RangeError", message |-> "Invalid time value"]

\* A Date holds up to 8.64e15 ms, 8640000000000 seconds; here the largest
\* time a contract answers lies beyond it, the others within.
MaxDateSeconds == MaxClaimable - 1

\* What `new ClaimDeadlinePassedError(snapshotId, deadline)` evaluates to: its
\* message is built with new Date(Number(deadline) * 1000).toISOString(), which
\* throws before the error is constructed when the deadline is no valid date.
ClaimDeadlinePassedError(snapshotId, deadline) ==
    IF deadline > MaxDateSeconds THEN RangeError
    ELSE [class |-> "ClaimDeadlinePassedError", code |-> "CLAIM_DEADLINE_PASSED",
          snapshotId |-> snapshotId, deadline |-> deadline]

\* ---- values
\* BigInt(result.toString())
ToBigInt(v) == BigIntOfString(BigIntToString(v))

\* The first address of the wallet client.
Account == "account0"

\* The hash a write returns names the transaction it sent.
TxHash(fn, args) == [fn |-> fn, args |-> args]

\* A remote call as issued: the contract (or client), the function, read or write.
RemoteCall(target, fn, kind) == [target |-> target, fn |-> fn, kind |-> kind]

\* No remote call.
NoRemoteCall == RemoteCall("none", "none", "none")

GetAddresses == RemoteCall("walletClient", "getAddresses", "read")

Pending == [tag |-> "pending", value |-> "none"]

NoReads == [claimable |-> NoCall, claimed |-> NoCall, info |-> NoCall]

\* ---- call frames
\* The locals of a call in flight (op, pc, the arguments, the reads of claim's
\* Promise.all, the hash of the last write, claimMultiple's results) and what
\* the call has done so far: `calls`, the remote calls issued by the running
\* method (claim's own when claimMultiple runs it); `sent`, the number of
\* write transactions the call has sent; `attempts`, for each id claimMultiple
\* is through with, whether its claim succeeded; `failed`, whether a remote
\* call of it (of the claim running, in claimMultiple) was rejected, and
\* `failedCall`, that call;
\* `balance`, the USDC balance depositRevenue has read.
Idle ==
    [op |-> "idle", pc |-> "idle", snapshotId |-> 0, amount |-> 0, ids |-> <<>>,
     idx |-> 0, reads |-> NoReads, hash |-> NoCall, results |-> <<>>,
     attempts |-> <<>>, out |-> NoCall, failed |-> FALSE, failedCall |-> NoRemoteCall,
     calls |-> <<>>, sent |-> 0, balance |-> NoCall]

\* A remote call of the running operation is rejected by the transport.
Failed(f, call) == [f EXCEPT !.failed = TRUE, !.failedCall = call]

\* Single-call reads: the contract and function each one calls, and the
\* message of the error it wraps a failure in.
SimpleReads ==
    [getTokenBalance |->
         [contract |-> "ENR1MToken", fn |-> "balanceOf",
          message |-> "Failed to get token balance"],
     getTokenBalanceAtSnapshot |->
         [contract |-> "ENR1MToken", fn |-> "balanceOfAt",
          message |-> "Failed to get token balance at snapshot"],
     getTotalSupplyAtSnapshot |->
         [contract |-> "ENR1MToken", fn |-> "totalSupplyAt",
          message |-> "Failed to get total supply at snapshot"],
     getEligibleSupplyAtSnapshot |->
         [contract |-> "ENR1MToken", fn |-> "eligibleSupplyAt",
          message |-> "Failed to get eligible supply at snapshot"],
     getClaimableAmount |->
         [contract |-> "Distributor", fn |-> "claimable",
          message |-> "Failed to get claimable amount"],
     getDistributionInfo |->
         [contract |-> "Distributor", fn |-> "getDistributionInfo",
          message |-> "Failed to get distribution info"]]

WriteOps ==
    {"createSnapshot", "claim", "claimMultiple", "depositRevenue", "fundDistribution",
     "createDistribution"}

ReadOps == DOMAIN SimpleReads \cup {"getUserInfo", "hasRole"}

\* The failure of a single-call read, as its catch block rethrows it.
ReadError(op, error) ==
    ContractInteractionError(SimpleReads[op].message, SimpleReads[op].contract,
                             SimpleReads[op].fn, error)

\* The contracts are opaque: but for the claimed flags (see `chain`), a read
\* is answered with any value of its type.
\* getDistributionInfo's tuple decoded (the amounts and createdAt, which
\* nothing here reads, are left out).
DistributionInfoOf(deadlineAt, isActive) ==
    [deadlineAt |-> ToBigInt(deadlineAt), isActive |-> isActive]

\* The call has settled: the promise is fulfilled or rejected with `outcome`.
Finish(f, outcome) == [f EXCEPT !.pc = "done", !.out = outcome]

\* First remote call of an operation, issued as the call starts.
FirstCall(op) ==
    CASE op \in DOMAIN SimpleReads ->
             <<RemoteCall(SimpleReads[op].contract, SimpleReads[op].fn, "read")>>
      [] op = "hasRole" -> <<RemoteCall("ENR1MToken", "hasRole", "read")>>
      [] op = "getUserInfo" ->
             <<RemoteCall("ENR1MToken", "balanceOf", "read"),
               RemoteCall("ENR1MToken", "balanceOfAt", "read"),
               RemoteCall("Distributor", "claimable", "read"),
               RemoteCall("Distributor", "claimed", "read")>>
      [] op = "createSnapshot" -> <<RemoteCall("ENR1MToken", "snapshot", "write")>>
      [] op = "fundDistribution" ->
             <<RemoteCall("RevenueVault", "fundDistribution", "write")>>
      [] op = "createDistribution" ->
             <<RemoteCall("Distributor", "distribute", "write")>>
      [] OTHER -> <<RemoteCall("walletClient", "getAddresses", "read")>>

FirstPc(op) ==
    CASE op \in DOMAIN SimpleReads -> "read"
      [] op \in {"createSnapshot", "fundDistribution", "createDistribution"} -> "write"
      [] op = "claim" -> "claim.getAddresses"
      [] op = "claimMultiple" -> "claimMultiple.getAddresses"
      [] op = "depositRevenue" -> "deposit.getAddresses"
      [] OTHER -> op

\* The wallet guard missing from claimMultiple.
Call_UnguardedClaimMultiple(c) ==
    /\ frame[c].pc = "idle"
    /\ \E op \in WriteOps \cup ReadOps, id \in SnapshotIds, amount \in 0..MaxUsdc,
          ids \in SeqsUpTo(SnapshotIds, MaxBatch) :
        /\ (op # "claimMultiple") => ids = <<>>
        /\ (op \in {"claimMultiple", "createSnapshot", "fundDistribution",
                    "depositRevenue", "hasRole", "getTokenBalance"}) => id = 0
        /\ (op \notin {"depositRevenue", "fundDistribution", "createDistribution"})
               => amount = 0
        /\ LET f == [Idle EXCEPT !.op = op, !.snapshotId = id, !.amount = amount,
                                 !.ids = ids]
           IN  frame' = [frame EXCEPT ![c] =
                   IF op \in (WriteOps \ {"claimMultiple"}) /\ ~wallet
                   THEN Finish(f, Throw(WalletRequired))
                   ELSE [f EXCEPT !.pc = FirstPc(op), !.calls = FirstCall(op)]]
    /\ UNCHANGED <<wallet, chain>>

\* A caller invokes an operation of the client. A write operation of a client
\* without wallet client throws before anything else; otherwise the operation
\* runs up to its first await.
Call(c) ==
    /\ frame[c].pc = "idle"
    /\ \E op \in WriteOps \cup ReadOps, id \in SnapshotIds, amount \in 0..MaxUsdc,
          ids \in SeqsUpTo(SnapshotIds, MaxBatch) :
        /\ (op # "claimMultiple") => ids = <<>>
        /\ (op \in {"claimMultiple", "createSnapshot", "fundDistribution",
                    "depositRevenue", "hasRole", "getTokenBalance"}) => id = 0
        /\ (op \notin {"depositRevenue", "fundDistribution", "createDistribution"})
               => amount = 0
        /\ LET f == [Idle EXCEPT !.op = op, !.snapshotId = id, !.amount = amount,
                                 !.ids = ids]
           IN  frame' = [frame EXCEPT ![c] =
                   IF op \in WriteOps /\ ~wallet
                   THEN Finish(f, Throw(WalletRequired))
                   ELSE [f EXCEPT !.pc = FirstPc(op), !.calls = FirstCall(op)]]
    /\ UNCHANGED <<wallet, chain>>

\* The caller has taken the outcome; the frame is free for the next call.
Reset(c) ==
    /\ frame[c].pc = "done"
    /\ frame' = [frame EXCEPT ![c] = Idle]
    /\ UNCHANGED <<wallet, chain>>

\* ---- single-call reads (try { await read } catch { throw wrapped })
SimpleRead(c) ==
    LET f == frame[c] IN
    /\ f.pc = "read"
    /\ \E ok \in BOOLEAN, v \in 0..MaxClaimable, isActive \in BOOLEAN :
        /\ (~ok) => (v = 0 /\ ~isActive)
        /\ (f.op # "getDistributionInfo") => ~isActive
        /\ frame' = [frame EXCEPT ![c] =
               IF ~ok
               THEN Finish(Failed(f, FirstCall(f.op)[1]),
                           Throw(ReadError(f.op, TransportError)))
               ELSE IF f.op = "getDistributionInfo"
               THEN Finish(f, Return(DistributionInfoOf(v, isActive)))
               ELSE Finish(f, Return(ToBigInt(v)))]
    /\ UNCHANGED <<wallet, chain>>

\* ---- hasRole: a failed read is caught and answered with false
HasRole(c) ==
    LET f == frame[c] IN
    /\ f.pc = "hasRole"
    /\ \E ok \in BOOLEAN, result \in BOOLEAN :
        frame' = [frame EXCEPT ![c] =
            IF ok THEN Finish(f, Return(result))
            ELSE Finish(Failed(f, FirstCall(f.op)[1]), Return(FALSE))]
    /\ UNCHANGED <<wallet, chain>>

\* ---- getUserInfo: Promise.all of four reads; the first rejection is wrapped
UserInfoReads == {"balanceOf", "balanceOfAt", "claimable", "claimed"}

UserInfoRejection(read) ==
    CASE read = "balanceOf" -> ReadError("getTokenBalance", TransportError)
      [] read = "balanceOfAt" -> ReadError("getTokenBalanceAtSnapshot", TransportError)
      [] read = "claimable" -> ReadError("getClaimableAmount", TransportError)
      [] OTHER -> TransportError

\* The remote call behind each of the four reads.
UserInfoCall(read) ==
    RemoteCall(IF read \in {"balanceOf", "balanceOfAt"} THEN "ENR1MToken"
               ELSE "Distributor", read, "read")

GetUserInfo(c) ==
    LET f == frame[c] IN
    /\ f.pc = "getUserInfo"
    /\ \E rejected \in SUBSET UserInfoReads, balance \in 0..MaxClaimable,
          balanceAtSnapshot \in 0..MaxClaimable, claimable \in 0..MaxClaimable :
        IF rejected = {}
        THEN frame' = [frame EXCEPT ![c] = Finish(f, Return(
                 [balance |-> ToBigInt(balance),
                  balanceAtSnapshot |-> ToBigInt(balanceAtSnapshot),
                  claimableAmount |-> ToBigInt(claimable),
                  hasClaimed |-> f.snapshotId \in chain.claimed]))]
        ELSE /\ balance = 0
             /\ balanceAtSnapshot = 0
             /\ claimable = 0
             /\ \E first \in rejected :
                    frame' = [frame EXCEPT ![c] =
                        Finish(Failed(f, UserInfoCall(first)),
                               Throw(ContractInteractionError(
                                   "Failed to get user info", "Multiple contracts",
                                   "getUserInfo", UserInfoRejection(first))))]
    /\ UNCHANGED <<wallet, chain>>

\* ---- createSnapshot, fundDistribution, createDistribution: one write and
\* its receipt, any failure wrapped by the operation's catch block
DirectWrites ==
    [createSnapshot |->
         [contract |-> "ENR1MToken", fn |-> "snapshot",
          message |-> "Failed to create snapshot"],
     fundDistribution |->
         [contract |-> "RevenueVault", fn |-> "fundDistribution",
          message |-> "Failed to fund distribution"],
     createDistribution |->
         [contract |-> "Distributor", fn |-> "distribute",
          message |-> "Failed to create distribution"]]

WriteError(op, error) ==
    ContractInteractionError(DirectWrites[op].message, DirectWrites[op].contract,
                             DirectWrites[op].fn, error)

WaitForReceipt == RemoteCall("publicClient", "waitForTransactionReceipt", "read")

\* Date.now(): the placeholder snapshot id of createSnapshot.
DateNow == "Date.now()"

WriteSettle(c) ==
    LET f == frame[c] IN
    /\ f.pc = "write"
    /\ \E ok \in BOOLEAN :
        frame' = [frame EXCEPT ![c] =
            IF ok
            THEN [f EXCEPT !.pc = "receipt", !.sent = @ + 1,
                           !.hash = Return(TxHash(DirectWrites[f.op].fn,
                                                  <<f.snapshotId, f.amount>>)),
                           !.calls = Append(@, WaitForReceipt)]
            ELSE Finish(Failed(f, FirstCall(f.op)[1]),
                        Throw(WriteError(f.op, TransportError)))]
    /\ UNCHANGED <<wallet, chain>>

ReceiptSettle(c) ==
    LET f == frame[c] IN
    /\ f.pc = "receipt"
    /\ \E ok \in BOOLEAN :
        frame' = [frame EXCEPT ![c] =
            IF ~ok
            THEN Finish(Failed(f, WaitForReceipt),
                        Throw(WriteError(f.op, TransportError)))
            ELSE IF f.op = "createSnapshot"
            THEN [f EXCEPT !.pc = "snapshot.reads",
                           !.calls = @ \o
                               <<RemoteCall("ENR1MToken", "totalSupplyAt", "read"),
                                 RemoteCall("ENR1MToken", "eligibleSupplyAt", "read")>>]
            ELSE IF f.op = "fundDistribution"
            THEN Finish(f, Return(f.hash.value))
            ELSE Finish(f, Return([snapshotId |-> f.snapshotId, amount |-> f.amount,
                                   transactionHash |-> f.hash.value]))]
    /\ UNCHANGED <<wallet, chain>>

\* Promise.all of the two supply reads at the placeholder id.
CreateSnapshotReads(c) ==
    LET f == frame[c] IN
    /\ f.pc = "snapshot.reads"
    /\ \E rejected \in SUBSET {"getTotalSupplyAtSnapshot", "getEligibleSupplyAtSnapshot"},
          totalSupply \in 0..MaxClaimable :
        IF rejected = {}
        THEN frame' = [frame EXCEPT ![c] = Finish(f, Return(
                 [snapshotId |-> DateNow, totalSupply |-> ToBigInt(totalSupply),
                  eligibleSupply |-> ToBigInt(totalSupply)]))]
        ELSE /\ totalSupply = 0
             /\ \E first \in rejected :
                    frame' = [frame EXCEPT ![c] =
                        Finish(Failed(f, FirstCall(first)[1]),
                               Throw(WriteError("createSnapshot",
                                                ReadError(first, TransportError))))]
    /\ UNCHANGED <<wallet, chain>>

\* ---- claim
\* The catch block of claim: the deadline error passes, the rest is wrapped.
ClaimCatch(error) ==
    IF error.class = "ClaimDeadlinePassedError" THEN error
    ELSE ContractInteractionError("Failed to claim profits", "Distributor", "claim",
                                  error)

\* claim(id) starts: the wallet's addresses are requested.
StartClaim(f, id) ==
    [f EXCEPT !.snapshotId = id, !.pc = "claim.getAddresses", !.reads = NoReads,
              !.hash = NoCall, !.failed = FALSE, !.failedCall = NoRemoteCall,
              !.calls = <<RemoteCall("walletClient", "getAddresses", "read")>>]

\* claimMultiple gives up on the first failed claim.
ClaimSettled_AbortOnFailure(f, outcome) ==
    IF f.op = "claim" THEN Finish(f, outcome)
    ELSE LET attempts == Append(f.attempts, Returned(outcome))
         IN  IF Threw(outcome)
             THEN Finish([f EXCEPT !.attempts = attempts],
                         Throw(ContractInteractionError(
                             "Failed to claim multiple profits", "Distributor",
                             "claimMultiple", outcome.value)))
             ELSE IF f.idx < Len(f.ids)
             THEN StartClaim([f EXCEPT !.results = Append(f.results, outcome.value),
                                       !.attempts = attempts, !.idx = f.idx + 1],
                             f.ids[f.idx + 1])
             ELSE Finish([f EXCEPT !.results = Append(f.results, outcome.value),
                                   !.attempts = attempts],
                         Return(Append(f.results, outcome.value)))

\* The promise of claim(id) settles with `outcome`. Called directly, that is the
\* caller's outcome. Inside claimMultiple's loop a result is pushed, a failure
\* is logged and skipped, and the loop goes on to the next id or returns.
ClaimSettled(f, outcome) ==
    IF f.op = "claim" THEN Finish(f, outcome)
    ELSE LET results  == IF Returned(outcome) THEN Append(f.results, outcome.value)
                         ELSE f.results
             attempts == Append(f.attempts, Returned(outcome))
             g        == [f EXCEPT !.results = results, !.attempts = attempts]
         IN  IF f.idx < Len(f.ids)
             THEN StartClaim([g EXCEPT !.idx = f.idx + 1], f.ids[f.idx + 1])
             ELSE Finish(g, Return(results))

ClaimReads == {"claimable", "claimed", "info"}

ClaimReadRejection(read) ==
    CASE read = "claimable" -> ReadError("getClaimableAmount", TransportError)
      [] read = "info" -> ReadError("getDistributionInfo", TransportError)
      [] OTHER -> TransportError

\* The remote call behind each of the three pre-check reads.
ClaimReadCall(read) ==
    RemoteCall("Distributor",
               IF read = "info" THEN "getDistributionInfo" ELSE read, "read")

\* The value a fulfilled pre-check read has: v and isActive are what the
\* contract answered; the claimed flag is the one the contract holds.
ClaimReadValue(read, id, v, isActive) ==
    CASE read = "claimable" -> ToBigInt(v)
      [] read = "info" -> DistributionInfoOf(v, isActive)
      [] OTHER -> id \in chain.claimed

\* await walletClient.getAddresses(); then the three pre-check reads are issued
\* together (Promise.all).
ClaimGetAddresses(c) ==
    LET f == frame[c] IN
    /\ f.pc = "claim.getAddresses"
    /\ \E ok \in BOOLEAN :
        frame' = [frame EXCEPT ![c] =
            IF ok
            THEN [f EXCEPT !.pc = "claim.reads",
                           !.reads = [r \in ClaimReads |-> Pending],
                           !.calls = @ \o
                               <<RemoteCall("Distributor", "claimable", "read"),
                                 RemoteCall("Distributor", "claimed", "read"),
                                 RemoteCall("Distributor", "getDistributionInfo",
                                            "read")>>]
            ELSE ClaimSettled(Failed(f, GetAddresses),
                              Throw(ClaimCatch(TransportError)))]
    /\ UNCHANGED <<wallet, chain>>

\* The checks without the one of distributionInfo.isActive.
ClaimChecked_NoActiveCheck(f, reads) ==
    LET g == [f EXCEPT !.reads = reads] IN
    IF reads.claimed.value
    THEN ClaimSettled(g, Throw(ClaimCatch(PlainError("Already claimed for this snapshot"))))
    ELSE IF reads.claimable.value = 0
    THEN ClaimSettled(g, Throw(ClaimCatch(PlainError("Nothing to claim for this snapshot"))))
    ELSE [g EXCEPT !.pc = "claim.write",
                   !.calls = Append(@, RemoteCall("Distributor", "claim", "write"))]

\* The checks made once all three reads are in, and the claim write they guard.
ClaimChecked(f, reads) ==
    LET g == [f EXCEPT !.reads = reads] IN
    IF reads.claimed.value
    THEN ClaimSettled(g, Throw(ClaimCatch(PlainError("Already claimed for this snapshot"))))
    ELSE IF reads.claimable.value = 0
    THEN ClaimSettled(g, Throw(ClaimCatch(PlainError("Nothing to claim for this snapshot"))))
    ELSE IF ~reads.info.value.isActive
    THEN ClaimSettled(g, Throw(ClaimCatch(
             ClaimDeadlinePassedError(f.snapshotId, reads.info.value.deadlineAt))))
    ELSE [g EXCEPT !.pc = "claim.write",
                   !.calls = Append(@, RemoteCall("Distributor", "claim", "write"))]

\* One of the three pending reads settles. A rejection rejects the Promise.all
\* at once; the last fulfilment lets the checks run.
ClaimReadSettle(c) ==
    LET f == frame[c] IN
    /\ f.pc = "claim.reads"
    /\ \E read \in ClaimReads, ok \in BOOLEAN, v \in 0..MaxClaimable,
          isActive \in BOOLEAN :
        /\ f.reads[read].tag = "pending"
        /\ (~ok \/ read = "claimed") => v = 0
        /\ (~ok \/ read # "info") => ~isActive
        /\ LET reads == [f.reads EXCEPT ![read] =
                             Return(ClaimReadValue(read, f.snapshotId, v, isActive))]
           IN  frame' = [frame EXCEPT ![c] =
                   IF ~ok
                   THEN ClaimSettled(
                            Failed([f EXCEPT !.reads[read] =
                                        Throw(ClaimReadRejection(read))],
                                   ClaimReadCall(read)),
                            Throw(ClaimCatch(ClaimReadRejection(read))))
                   ELSE IF \E r \in ClaimReads : reads[r].tag = "pending"
                   THEN [f EXCEPT !.reads = reads]
                   ELSE ClaimChecked(f, reads)]
    /\ UNCHANGED <<wallet, chain>>

\* What is known of the distributor: it reverts a claim of a snapshot the
\* account has claimed, and marks a snapshot claimed when a claim succeeds.
\* Whether it accepts any other claim is its own affair (`ok` in ClaimWrite).
\* A distributor that accepts a second claim of a snapshot.
ClaimAccepted_Always(id) == id \in SnapshotIds

ClaimAccepted(id) == id \notin chain.claimed

\* The claim write of a distributor that does not mark the snapshot claimed.
ClaimWrite_FlagNotSet(c) ==
    LET f == frame[c] IN
    /\ f.pc = "claim.write"
    /\ \E ok \in BOOLEAN :
        IF ok /\ ClaimAccepted(f.snapshotId)
        THEN /\ chain' = chain
             /\ frame' = [frame EXCEPT ![c] =
                    [f EXCEPT !.pc = "claim.receipt", !.sent = @ + 1,
                              !.hash = Return(TxHash("claim", <<f.snapshotId>>)),
                              !.calls = Append(@, WaitForReceipt)]]
        ELSE /\ frame' = [frame EXCEPT ![c] =
                    ClaimSettled(Failed(f, RemoteCall("Distributor", "claim", "write")),
                                 Throw(ClaimCatch(TransportError)))]
             /\ UNCHANGED chain
    /\ UNCHANGED wallet

\* await distributorContract.write.claim([snapshotId])
ClaimWrite(c) ==
    LET f == frame[c] IN
    /\ f.pc = "claim.write"
    /\ \E ok \in BOOLEAN :
        IF ok /\ ClaimAccepted(f.snapshotId)
        THEN /\ chain' = [chain EXCEPT !.claimed = @ \cup {f.snapshotId}]
             /\ frame' = [frame EXCEPT ![c] =
                    [f EXCEPT !.pc = "claim.receipt", !.sent = @ + 1,
                              !.hash = Return(TxHash("claim", <<f.snapshotId>>)),
                              !.calls = Append(@, WaitForReceipt)]]
        ELSE /\ frame' = [frame EXCEPT ![c] =
                    ClaimSettled(Failed(f, RemoteCall("Distributor", "claim", "write")),
                                 Throw(ClaimCatch(TransportError)))]
             /\ UNCHANGED chain
    /\ UNCHANGED wallet

\* The result with the amount claimable once the claim is through: nothing.
ClaimReceipt_AmountReadAfter(c) ==
    LET f == frame[c] IN
    /\ f.pc = "claim.receipt"
    /\ \E ok \in BOOLEAN :
        frame' = [frame EXCEPT ![c] =
            IF ok
            THEN ClaimSettled(f, Return([snapshotId |-> f.snapshotId,
                                         amount |-> 0,
                                         user |-> Account,
                                         transactionHash |-> f.hash.value]))
            ELSE ClaimSettled(Failed(f, WaitForReceipt),
                              Throw(ClaimCatch(TransportError)))]
    /\ UNCHANGED <<wallet, chain>>

\* await publicClient.waitForTransactionReceipt({ hash }); then the result
ClaimReceipt(c) ==
    LET f == frame[c] IN
    /\ f.pc = "claim.receipt"
    /\ \E ok \in BOOLEAN :
        frame' = [frame EXCEPT ![c] =
            IF ok
            THEN ClaimSettled(f, Return([snapshotId |-> f.snapshotId,
                                         amount |-> f.reads.claimable.value,
                                         user |-> Account,
                                         transactionHash |-> f.hash.value]))
            ELSE ClaimSettled(Failed(f, WaitForReceipt),
                              Throw(ClaimCatch(TransportError)))]
    /\ UNCHANGED <<wallet, chain>>

\* ---- claimMultiple
\* await walletClient.getAddresses() of claimMultiple itself; then the loop
\* starts with the first id, or returns the empty list.
ClaimMultipleGetAddresses(c) ==
    LET f == frame[c] IN
    /\ f.pc = "claimMultiple.getAddresses"
    /\ \E ok \in BOOLEAN :
        frame' = [frame EXCEPT ![c] =
            IF ~ok
            THEN Finish(Failed(f, GetAddresses),
                        Throw(ContractInteractionError(
                            "Failed to claim multiple profits", "Distributor",
                            "claimMultiple", TransportError)))
            ELSE IF f.ids = <<>> THEN Finish(f, Return(<<>>))
            ELSE StartClaim([f EXCEPT !.idx = 1], f.ids[1])]
    /\ UNCHANGED <<wallet, chain>>

\* ---- depositRevenue
\* The catch block of depositRevenue: the balance error passes, the rest is wrapped.
\* The catch block wrapping every error.
DepositCatch_WrapAll(error) ==
    ContractInteractionError("Failed to deposit revenue", "RevenueVault", "deposit",
                             error)

DepositCatch(error) ==
    IF error.class = "InsufficientBalanceError" THEN error
    ELSE ContractInteractionError("Failed to deposit revenue", "RevenueVault",
                                  "deposit", error)

\* A remote call of depositRevenue is rejected: the one issued last.
DepositFailed(f, error) ==
    Finish(Failed(f, f.calls[Len(f.calls)]), Throw(DepositCatch(error)))

DepositGetAddresses(c) ==
    LET f == frame[c] IN
    /\ f.pc = "deposit.getAddresses"
    /\ \E ok \in BOOLEAN :
        frame' = [frame EXCEPT ![c] =
            IF ok
            THEN [f EXCEPT !.pc = "deposit.balance",
                           !.calls = Append(@, RemoteCall("USDC", "balanceOf", "read"))]
            ELSE DepositFailed(f, TransportError)]
    /\ UNCHANGED <<wallet, chain>>

\* await usdcContract.read.balanceOf([account]) and the balance pre-check
DepositBalance(c) ==
    LET f == frame[c] IN
    /\ f.pc = "deposit.balance"
    /\ \E ok \in BOOLEAN, balance \in 0..MaxUsdc :
        /\ (~ok) => balance = 0
        /\ frame' = [frame EXCEPT ![c] =
            IF ~ok THEN DepositFailed(f, TransportError)
            ELSE IF ToBigInt(balance) < f.amount
            THEN Finish([f EXCEPT !.balance = Return(balance)], Throw(DepositCatch(
                     InsufficientBalanceError(f.amount, ToBigInt(balance), "USDC"))))
            ELSE [f EXCEPT !.pc = "deposit.approve", !.balance = Return(balance),
                           !.calls = Append(@, RemoteCall("USDC", "approve", "write"))]]
    /\ UNCHANGED <<wallet, chain>>

\* approve without waiting for its receipt: the deposit is sent at once
DepositApprove_NoReceiptWait(c) ==
    LET f == frame[c] IN
    /\ f.pc = "deposit.approve"
    /\ \E ok \in BOOLEAN :
        frame' = [frame EXCEPT ![c] =
            IF ok
            THEN [f EXCEPT !.pc = "deposit.deposit", !.sent = @ + 1,
                           !.hash = Return(TxHash("approve", <<f.amount>>)),
                           !.calls = Append(@, RemoteCall("RevenueVault", "deposit",
                                                          "write"))]
            ELSE DepositFailed(f, TransportError)]
    /\ UNCHANGED <<wallet, chain>>

\* await usdcContract.write.approve([revenueVault, amount])
DepositApprove(c) ==
    LET f == frame[c] IN
    /\ f.pc = "deposit.approve"
    /\ \E ok \in BOOLEAN :
        frame' = [frame EXCEPT ![c] =
            IF ok
            THEN [f EXCEPT !.pc = "deposit.approveReceipt", !.sent = @ + 1,
                           !.hash = Return(TxHash("approve", <<f.amount>>)),
                           !.calls = Append(@, WaitForReceipt)]
            ELSE DepositFailed(f, TransportError)]
    /\ UNCHANGED <<wallet, chain>>

\* await waitForTransactionReceipt({ hash: approveHash }); then the deposit is sent
DepositApproveReceipt(c) ==
    LET f == frame[c] IN
    /\ f.pc = "deposit.approveReceipt"
    /\ \E ok \in BOOLEAN :
        frame' = [frame EXCEPT ![c] =
            IF ok
            THEN [f EXCEPT !.pc = "deposit.deposit",
                           !.calls = Append(@, RemoteCall("RevenueVault", "deposit",
                                                          "write"))]
            ELSE DepositFailed(f, TransportError)]
    /\ UNCHANGED <<wallet, chain>>

\* await vaultContract.write.deposit([amount])
DepositWrite(c) ==
    LET f == frame[c] IN
    /\ f.pc = "deposit.deposit"
    /\ \E ok \in BOOLEAN :
        frame' = [frame EXCEPT ![c] =
            IF ok
            THEN [f EXCEPT !.pc = "deposit.receipt", !.sent = @ + 1,
                           !.hash = Return(TxHash("deposit", <<f.amount>>)),
                           !.calls = Append(@, WaitForReceipt)]
            ELSE DepositFailed(f, TransportError)]
    /\ UNCHANGED <<wallet, chain>>

\* await waitForTransactionReceipt({ hash: depositHash }); return depositHash
DepositReceipt(c) ==
    LET f == frame[c] IN
    /\ f.pc = "deposit.receipt"
    /\ \E ok \in BOOLEAN :
        frame' = [frame EXCEPT ![c] =
            IF ok THEN Finish(f, Return(f.hash.value))
            ELSE DepositFailed(f, TransportError)]
    /\ UNCHANGED <<wallet, chain>>

\* ---- the client and the contracts it talks to
ClientIdle ==
    /\ wallet = FALSE
    /\ chain = [claimed |-> {}]
    /\ frame = [c \in {"caller"} |-> Idle]

\* A client constructed with or without wallet client. Of the contracts'
\* state the model keeps the snapshots the account has claimed: any of them
\* may be claimed already.
ClientInit ==
    /\ wallet \in BOOLEAN
    /\ \E claimed \in SUBSET SnapshotIds : chain = [claimed |-> claimed]
    /\ frame = [c \in {"caller"} |-> Idle]

\* ================================================================ factory
\* CHAIN_CONFIGS[chainId].contracts
CHAIN_CONFIGS ==
    [chainId \in {137, 80001, 31337, 246} |->
        IF chainId = 137
        THEN [token |-> "0x0000000000000000000000000000000000000000",
              distributor |-> "0x0000000000000000000000000000000000000000",
              revenueVault |-> "0x0000000000000000000000000000000000000000",
              usdc |-> "0x2791Bca1f2de4661ED88A30C99A7a9449Aa84174"]
        ELSE IF chainId = 31337
        THEN [token |-> "0xe7f1725E7734CE288F8367e1Bb143E90bb3F0512",
              distributor |-> "0xCf7Ed3AccA5a467e9e704C703E8D87F634fB0Fc9",
              revenueVault |-> "0x9fE46736679d2D9a65F0992F2272dE9f3c7fa6e0",
              usdc |-> "0x5FbDB2315678afecb367f032d93F642f64180aa3"]
        ELSE [token |-> "0x0000000000000000000000000000000000000000",
              distributor |-> "0x0000000000000000000000000000000000000000",
              revenueVault |-> "0x0000000000000000000000000000000000000000",
              usdc |-> "0x0000000000000000000000000000000000000000"]]

getChainConfig(chainId) ==
    IF chainId \in DOMAIN CHAIN_CONFIGS THEN Return(CHAIN_CONFIGS[chainId])
    ELSE Throw(PlainError("Unsupported chain ID"))

\* { ...a, ...b }: the own properties of a, then those of b over them
Spread(a, b) ==
    [k \in DOMAIN a \cup DOMAIN b |-> IF k \in DOMAIN b THEN b[k] ELSE a[k]]

\* { ...config.addresses, ...chainConfig.contracts }
createENR1MClient_DefaultsWin(config) ==
    LET chainConfig == getChainConfig(config.chainId)
    IN  IF Threw(chainConfig) THEN chainConfig
        ELSE Return(Spread(config.addresses, chainConfig.value))

\* The addresses of the client built: new ENR1MClient({ addresses, ... })
\* keeps the config, and getAddresses() returns its addresses.
createENR1MClient(config) ==
    LET chainConfig == getChainConfig(config.chainId)
    IN  IF Threw(chainConfig) THEN chainConfig
        ELSE Return(Spread(chainConfig.value, config.addresses))

\* The keys of ContractAddresses; tokenSale is optional and no chain sets it.
AddressKeys == {"token", "distributor", "revenueVault", "usdc", "tokenSale"}

\* Addresses a caller supplies, none of them a default of any chain.
CustomAddresses ==
    {"0x1234567890123456789012345678901234567890",
     "0x742d35Cc6634C0532925a3b8D84Eb5b4FA4FcD3f"}

\* config.addresses: Partial<ContractAddresses>, or absent (no keys).
PartialAddresses ==
    UNION {[keys -> CustomAddresses] : keys \in SUBSET AddressKeys}

FactoryIdle ==
    /\ factoryIn = [chainId |-> 0, addresses |-> <<>>]
    /\ factoryOut = NoCall

FactoryInit ==
    /\ \E chainId \in DOMAIN CHAIN_CONFIGS \cup {1}, addresses \in PartialAddresses :
        factoryIn = [chainId |-> chainId, addresses |-> addresses]
    /\ factoryOut = NoCall

CreateENR1MClient ==
    /\ factoryOut.tag = "none"
    /\ factoryOut' = createENR1MClient(factoryIn)
    /\ UNCHANGED factoryIn

\* ========================================================= specifications
\* The calculator: a session of calculateUserShare calls on one distribution.
InitShare == ShareInit /\ CodecIdle /\ PctIdle /\ ErrIdle /\ ApyIdle /\ ParseIdle /\ ValidIdle /\ FactoryIdle /\ ClientIdle
NextShare ==
    CalculateUserShare /\ UNCHANGED <<codecVars, pctVars, errVars, apyVars, parseVars, validVars, factoryVars, clientVars>>
SpecShare == InitShare /\ [][NextShare]_vars

\* The amount codec: display an amount, then parse the displayed string.
InitCodec == ShareIdle /\ CodecInit /\ PctIdle /\ ErrIdle /\ ApyIdle /\ ParseIdle /\ ValidIdle /\ FactoryIdle /\ ClientIdle
NextCodec ==
    \/ FormatTokenDisplay /\ UNCHANGED <<shareVars, pctVars, errVars, apyVars, parseVars, validVars, factoryVars, clientVars>>
    \/ ParseDisplayed /\ UNCHANGED <<shareVars, pctVars, errVars, apyVars, parseVars, validVars, factoryVars, clientVars>>
SpecCodec == InitCodec /\ [][NextCodec]_vars

\* formatPercentage on one input.
InitPct == ShareIdle /\ CodecIdle /\ PctInit /\ ErrIdle /\ ApyIdle /\ ParseIdle /\ ValidIdle /\ FactoryIdle /\ ClientIdle
NextPct ==
    FormatPercentage /\ UNCHANGED <<shareVars, codecVars, errVars, apyVars, parseVars, validVars, factoryVars, clientVars>>
SpecPct == InitPct /\ [][NextPct]_vars

\* parseContractError on one input.
InitErr == ShareIdle /\ CodecIdle /\ PctIdle /\ ErrInit /\ ApyIdle /\ ParseIdle /\ ValidIdle /\ FactoryIdle /\ ClientIdle
NextErr ==
    ParseContractError /\ UNCHANGED <<shareVars, codecVars, pctVars, apyVars, parseVars, validVars, factoryVars, clientVars>>

\* calculateAPY on one input.
InitApy == ShareIdle /\ CodecIdle /\ PctIdle /\ ErrIdle /\ ApyInit /\ ParseIdle /\ ValidIdle /\ FactoryIdle /\ ClientIdle
NextApy ==
    CalculateAPY
        /\ UNCHANGED <<shareVars, codecVars, pctVars, errVars, parseVars, validVars, factoryVars, clientVars>>
SpecApy == InitApy /\ [][NextApy]_vars

\* parseTokenAmount / parseUSDCAmount on one numeral.
InitParse ==
    /\ ShareIdle /\ CodecIdle /\ PctIdle /\ ErrIdle /\ ApyIdle /\ ParseInit
    /\ ValidIdle /\ FactoryIdle /\ ClientIdle
NextParse ==
    ParseAmount /\ UNCHANGED <<shareVars, codecVars, pctVars, errVars, apyVars, validVars,
                              factoryVars, clientVars>>
SpecParse == InitParse /\ [][NextParse]_vars

\* The validators, each on one input.
otherThanValid ==
    <<shareVars, codecVars, pctVars, errVars, apyVars, parseVars, factoryVars, clientVars>>

InitValid ==
    /\ ShareIdle /\ CodecIdle /\ PctIdle /\ ErrIdle /\ ApyIdle /\ ParseIdle
    /\ ValidInit /\ FactoryIdle /\ ClientIdle
NextValid ==
    \/ IsValidAddress /\ UNCHANGED otherThanValid
    \/ IsValidHash /\ UNCHANGED otherThanValid
    \/ ValidateSnapshotId /\ UNCHANGED otherThanValid
    \/ ValidateAmount /\ UNCHANGED otherThanValid
SpecValid == InitValid /\ [][NextValid]_vars

\* createENR1MClient on one config.
InitFactory ==
    /\ ShareIdle /\ CodecIdle /\ PctIdle /\ ErrIdle /\ ApyIdle /\ ParseIdle
    /\ ValidIdle /\ FactoryInit /\ ClientIdle
NextFactory ==
    CreateENR1MClient
        /\ UNCHANGED <<shareVars, codecVars, pctVars, errVars, apyVars, parseVars,
                       validVars, clientVars>>
SpecFactory == InitFactory /\ [][NextFactory]_vars
SpecErr == InitErr /\ [][NextErr]_vars

\* The client: callers invoke its operations, whose remote calls settle one
\* await at a time, each fulfilled or rejected by the transport.
pureVars ==
    <<shareVars, codecVars, pctVars, errVars, apyVars, parseVars, validVars, factoryVars>>

Init == ShareIdle /\ CodecIdle /\ PctIdle /\ ErrIdle /\ ApyIdle /\ ParseIdle /\ ValidIdle /\ FactoryIdle /\ ClientInit

Next ==
    \/ \E c \in DOMAIN frame : Call(c) /\ UNCHANGED pureVars
    \/ \E c \in DOMAIN frame : Reset(c) /\ UNCHANGED pureVars
    \/ \E c \in DOMAIN frame : SimpleRead(c) /\ UNCHANGED pureVars
    \/ \E c \in DOMAIN frame : HasRole(c) /\ UNCHANGED pureVars
    \/ \E c \in DOMAIN frame : GetUserInfo(c) /\ UNCHANGED pureVars
    \/ \E c \in DOMAIN frame : WriteSettle(c) /\ UNCHANGED pureVars
    \/ \E c \in DOMAIN frame : ReceiptSettle(c) /\ UNCHANGED pureVars
    \/ \E c \in DOMAIN frame : CreateSnapshotReads(c) /\ UNCHANGED pureVars
    \/ \E c \in DOMAIN frame : ClaimGetAddresses(c) /\ UNCHANGED pureVars
    \/ \E c \in DOMAIN frame : ClaimReadSettle(c) /\ UNCHANGED pureVars
    \/ \E c \in DOMAIN frame : ClaimWrite(c) /\ UNCHANGED pureVars
    \/ \E c \in DOMAIN frame : ClaimReceipt(c) /\ UNCHANGED pureVars
    \/ \E c \in DOMAIN frame : ClaimMultipleGetAddresses(c) /\ UNCHANGED pureVars
    \/ \E c \in DOMAIN frame : DepositGetAddresses(c) /\ UNCHANGED pureVars
    \/ \E c \in DOMAIN frame : DepositBalance(c) /\ UNCHANGED pureVars
    \/ \E c \in DOMAIN frame : DepositApprove(c) /\ UNCHANGED pureVars
    \/ \E c \in DOMAIN frame : DepositApproveReceipt(c) /\ UNCHANGED pureVars
    \/ \E c \in DOMAIN frame : DepositWrite(c) /\ UNCHANGED pureVars
    \/ \E c \in DOMAIN frame : DepositReceipt(c) /\ UNCHANGED pureVars

Spec == Init /\ [][Next]_vars

\* Two calls of claim in flight at once: the account calls claim(snapshotId)
\* twice for one snapshot, the second call made while the first is anywhere
\* between its start and its end; the awaits of the two interleave freely.
Callers == {"first", "second"}

InitRace ==
    /\ ShareIdle /\ CodecIdle /\ PctIdle /\ ErrIdle /\ ApyIdle /\ ParseIdle
    /\ ValidIdle /\ FactoryIdle
    /\ wallet = TRUE
    /\ \E claimed \in SUBSET SnapshotIds : chain = [claimed |-> claimed]
    /\ frame = [c \in Callers |-> Idle]

\* claim(snapshotId) is called: the second call once the first is made, and
\* for the same snapshot.
CallClaim(c) ==
    /\ (c = "second") => frame["first"].pc # "idle"
    /\ Call(c)
    /\ frame'[c].op = "claim"
    /\ \A d \in DOMAIN frame \ {c} :
           frame[d].pc # "idle" => frame'[c].snapshotId = frame[d].snapshotId

NextRace ==
    \/ \E c \in DOMAIN frame : CallClaim(c) /\ UNCHANGED pureVars
    \/ \E c \in DOMAIN frame : ClaimGetAddresses(c) /\ UNCHANGED pureVars
    \/ \E c \in DOMAIN frame : ClaimReadSettle(c) /\ UNCHANGED pureVars
    \/ \E c \in DOMAIN frame : ClaimWrite(c) /\ UNCHANGED pureVars
    \/ \E c \in DOMAIN frame : ClaimReceipt(c) /\ UNCHANGED pureVars

SpecRace == InitRace /\ [][NextRace]_vars

\* ================================================================= claims
\* Parts of a displayed decimal string: the text before and after the ".".
WholePart(s) ==
    LET dot == IndexOfDot(s, 1) IN IF dot = 0 THEN s ELSE SubSeq(s, 1, dot - 1)

FractionPart(s) ==
    LET dot == IndexOfDot(s, 1) IN IF dot = 0 THEN <<>> ELSE SubSeq(s, dot + 1, Len(s))

\* C1: calculateUserShare returns (never throws) for non-negative inputs; the
\* value is 0 when eligibleSupply = 0 and otherwise the floor of
\* totalDistribution * userBalance / eligibleSupply, i.e. the unique r with
\* r * supply <= pool * balance < (r + 1) * supply; a zero balance gives 0.
C1_ShareIsFloorOfProduct ==
    shareCall.out.tag # "none" =>
        LET b == shareCall.userBalance
            p == shareIn.totalDistribution
            s == shareIn.eligibleSupply
            o == shareCall.out
        IN  /\ Returned(o)
            /\ s = 0 => o.value = 0
            /\ s > 0 => /\ o.value * s <= p * b
                        /\ p * b < (o.value + 1) * s
            /\ (b = 0 /\ s > 0) => o.value = 0

\* A call whose quotient is inexact and where dividing first would differ.
C1_Witness ==
    /\ Returned(shareCall.out)
    /\ shareIn.eligibleSupply > 0
    /\ (shareIn.totalDistribution * shareCall.userBalance) % shareIn.eligibleSupply # 0
    /\ shareCall.out.value > 0
    /\ shareCall.out.value
           # (shareIn.totalDistribution \div shareIn.eligibleSupply) * shareCall.userBalance

\* C2: parsing the string displayed for an amount, at the exponent it was
\* displayed with, returns exactly that amount.
C2_RoundTrip ==
    parsed.tag # "none" => (Returned(parsed) /\ parsed.value = codecIn.amount)

\* A round trip through a string whose fraction was zero-padded on the left
\* and stripped on the right (such as 1050 at 3 decimals, "1.05").
C2_Witness ==
    /\ parsed = Return(codecIn.amount)
    /\ IndexOfDot(display.value, 1) > 0
    /\ codecIn.decimals >= 2
    /\ codecIn.amount % 10 = 0
    /\ codecIn.amount % Pow10(codecIn.decimals) < Pow10(codecIn.decimals - 1)
    /\ codecIn.amount >= Pow10(codecIn.decimals)

\* C3: the displayed string is the decimal numeral of amount div 10^e,
\* followed, iff amount mod 10^e is not zero, by "." and the e-digit
\* zero-padded remainder without its trailing zeros; zero displays as "0".
C3_DisplayIsWholeDotStrippedFraction ==
    Returned(display) =>
        LET s    == display.value
            a    == codecIn.amount
            e    == codecIn.decimals
            w    == WholePart(s)
            f    == FractionPart(s)
        IN  /\ w = BigIntToString(a \div Pow10(e))
            /\ AllDigits(f)
            /\ Len(f) <= e
            /\ f # <<>> => f[Len(f)] # "0"
            /\ BigIntOfString(f) * Pow10(e - Len(f)) = a % Pow10(e)
            /\ (IndexOfDot(s, 1) = 0) <=> (a % Pow10(e) = 0)
            /\ a = 0 => s = <<"0">>

\* A displayed fraction that shows a padding zero and lost a trailing zero.
C3_Witness ==
    /\ Returned(display)
    /\ FractionPart(display.value) # <<>>
    /\ FractionPart(display.value)[1] = "0"
    /\ Len(FractionPart(display.value)) < codecIn.decimals

\* The ids at the positions where the claim succeeded, in input order.
RECURSIVE SucceededIds(_, _)
SucceededIds(ids, attempts) ==
    IF ids = <<>> \/ attempts = <<>> THEN <<>>
    ELSE IF Head(attempts)
    THEN <<Head(ids)>> \o SucceededIds(Tail(ids), Tail(attempts))
    ELSE SucceededIds(Tail(ids), Tail(attempts))

\* C4: a claimMultiple of a client with wallet client attempts every id of
\* its list whatever the earlier claims did; no failed claim is raised to the
\* caller (it throws only when no claim was attempted at all); the list it
\* returns holds, in input order, exactly one ClaimResult for each id whose
\* claim succeeded, so it is shorter than the input exactly when a claim failed.
C4_BatchIsBestEffort ==
    \A c \in DOMAIN frame :
        LET f == frame[c] IN
        (f.op = "claimMultiple" /\ f.pc = "done" /\ wallet) =>
            /\ Threw(f.out) => f.attempts = <<>>
            /\ Returned(f.out) =>
                /\ Len(f.attempts) = Len(f.ids)
                /\ [k \in 1..Len(f.out.value) |-> f.out.value[k].snapshotId]
                       = SucceededIds(f.ids, f.attempts)
                /\ \A k \in 1..Len(f.out.value) : f.out.value[k].user = Account
                /\ Len(f.out.value) <= Len(f.ids)
                /\ (Len(f.out.value) < Len(f.ids))
                       <=> (\E i \in 1..Len(f.ids) : ~f.attempts[i])

\* A batch of two whose first claim failed and whose second succeeded.
C4_Witness ==
    \E c \in DOMAIN frame :
        LET f == frame[c] IN
        /\ f.op = "claimMultiple"
        /\ f.pc = "done"
        /\ Returned(f.out)
        /\ Len(f.ids) = 2
        /\ ~f.attempts[1]
        /\ f.attempts[2]
        /\ Len(f.out.value) = 1

\* C5: an operation other than claimMultiple in which a remote call failed
\* ends with a thrown error, never with a returned value.
C5_NoFailureSwallowed ==
    \A c \in DOMAIN frame :
        LET f == frame[c] IN
        (f.pc = "done" /\ f.op # "claimMultiple" /\ f.failed) => Threw(f.out)

\* C6: parseContractError returns a string for every input and never throws.
C6_NeverThrows ==
    errOut.tag # "none" => (Returned(errOut) /\ errOut.value.type = "string")

\* C7: for a non-zero denominator and every precision p the result shows
\* floor(numerator * 10^(p+2) / denominator) split at p digits: its whole part
\* is that value div 10^p and its fraction digits are that value mod 10^p
\* (compared without trailing zeros).
C7_PrecisionDeterminesDigits ==
    (Returned(pctOut) /\ pctIn.denominator # 0) =>
        LET s == pctOut.value
            body == SubSeq(s, 1, Len(s) - 1)
            p == pctIn.decimals
            v == (pctIn.numerator * Pow10(p + 2)) \div pctIn.denominator
        IN  /\ WholePart(body) = BigIntToString(v \div Pow10(p))
            /\ StripTrailingZeros(FractionPart(body))
                   = StripTrailingZeros(padStart(BigIntToString(v % Pow10(p)), p, "0"))

\* C8: for a non-zero denominator the result ends in "%", its fraction never
\* ends in the digit 0, and no "." is printed without fraction digits.
C8_FractionIsTrimmed ==
    (Returned(pctOut) /\ pctIn.denominator # 0) =>
        LET s == pctOut.value
            body == SubSeq(s, 1, Len(s) - 1)
            f == FractionPart(body)
        IN  /\ s[Len(s)] = "%"
            /\ IndexOfDot(body, 1) > 0 => (f # <<>> /\ f[Len(f)] # "0")

\* C9: a holder balance within the eligible supply never yields a share above
\* the pool.
C9_ShareAtMostPool ==
    (shareCall.out.tag # "none" /\ shareCall.userBalance <= shareIn.eligibleSupply) =>
        (Returned(shareCall.out) /\ shareCall.out.value <= shareIn.totalDistribution)

\* The whole supply held by one holder: the share is the whole pool.
C9_Witness ==
    /\ Returned(shareCall.out)
    /\ shareIn.eligibleSupply > 0
    /\ shareCall.userBalance = shareIn.eligibleSupply
    /\ shareIn.totalDistribution > 0
    /\ shareCall.out.value = shareIn.totalDistribution

\* C10: with pool and supply > 0 fixed, of two calls the one with the larger
\* balance returns at least as much.
C10_Monotone ==
    (/\ sharePrev.out.tag # "none"
     /\ shareCall.out.tag # "none"
     /\ shareIn.eligibleSupply > 0
     /\ sharePrev.userBalance <= shareCall.userBalance) =>
        /\ Returned(sharePrev.out)
        /\ Returned(shareCall.out)
        /\ sharePrev.out.value <= shareCall.out.value

\* Two calls with different balances whose product exceeds the supply in
\* between (where a remainder would wrap around).
C10_Witness ==
    /\ Returned(sharePrev.out)
    /\ Returned(shareCall.out)
    /\ shareIn.eligibleSupply > 0
    /\ sharePrev.userBalance < shareCall.userBalance
    /\ sharePrev.out.value < shareCall.out.value
    /\ shareIn.totalDistribution * shareCall.userBalance >= shareIn.eligibleSupply

\* C11: formatPercentage(n, 0, p) returns "0%" for every numerator n and every
\* precision p, and raises nothing.
C11_ZeroDenominatorIsZeroPercent ==
    (pctOut.tag # "none" /\ pctIn.denominator = 0) =>
        (Returned(pctOut) /\ pctOut.value = <<"0", "%">>)

C11_Witness ==
    /\ Returned(pctOut)
    /\ pctIn.denominator = 0
    /\ pctIn.numerator > 0
    /\ pctIn.decimals # 2

\* The three zero guards of calculateAPY: no eligible supply, no balance, or
\* a holder value (balance times price) of zero USD.
ApyGuarded ==
    \/ apyIn.eligibleSupply = 0
    \/ apyIn.userBalance = 0
    \/ apyIn.userBalance * apyIn.tokenPriceUSD.num = 0

\* C12: calculateAPY returns exactly 0 whenever eligibleSupply = 0, or
\* userBalance = 0, or the USD value of the holder's balance is 0; no division
\* by that zero is made (its result would be NaN or Infinity).
C12_ZeroGuardsReturnZero ==
    (Returned(apyOut) /\ ApyGuarded) => apyOut.value = Zero

C12_Witness ==
    /\ Returned(apyOut)
    /\ apyIn.eligibleSupply > 0
    /\ apyIn.userBalance > 0
    /\ apyIn.monthlyDistribution > 0
    /\ apyIn.tokenPriceUSD = Zero
    /\ apyOut.value = Zero

\* The periods of a year the call asks for: 12 when none are passed.
PeriodsAskedFor ==
    IF apyIn.periodsPerYear = NoPeriods THEN 12 ELSE apyIn.periodsPerYear

\* shareUSD / holderValueUSD * periods * 100, as one fraction:
\* shareUSD = share / 10^6, holderValueUSD = balance / 10^DefaultDecimals * price.
YieldOf(share, balance, price, periods) ==
    Number(share * Pow10(DefaultDecimals) * price.den * periods * 100,
           Pow10(6) * balance * price.num)

\* C13: when no zero guard applies, the yield is
\* (shareUSD / holderValueUSD) * periodsPerYear * 100, with periodsPerYear the
\* number the caller supplies (12 when not supplied).
C13_YieldUsesPeriodsPerYear ==
    (Returned(apyOut) /\ ~ApyGuarded) =>
        apyOut.value = (YieldOf((apyIn.monthlyDistribution * apyIn.userBalance)
                                    \div apyIn.eligibleSupply,
                                apyIn.userBalance, apyIn.tokenPriceUSD,
                                PeriodsAskedFor))

\* The exponent the called parser works at.
ExponentOf(fn) == IF fn = "parseTokenAmount" THEN DefaultDecimals ELSE 6

\* C14: parsing a decimal numeral with at most `exponent` fraction digits
\* (parseTokenAmount, parseUSDCAmount) gives exactly the numeral's value times
\* 10^exponent: the integer part times 10^exponent plus the fraction digits
\* shifted to the exponent.
C14_ParseIsExact ==
    (parseOut.tag # "none" /\ Len(parseIn.fraction) <= ExponentOf(parseIn.fn)) =>
        /\ Returned(parseOut)
        /\ parseOut.value =
               parseIn.whole * Pow10(ExponentOf(parseIn.fn))
                   + BigIntOfString(parseIn.fraction)
                         * Pow10(ExponentOf(parseIn.fn) - Len(parseIn.fraction))

C14_Witness ==
    /\ Returned(parseOut)
    /\ parseIn.fn = "parseUSDCAmount"
    /\ parseIn.whole = 10
    /\ parseIn.fraction = <<"2", "5">>
    /\ parseOut.value = 10250000

\* The substrings the claim lists, each with its sentence, in the order listed.
ListedMappings ==
    <<<<PausablePaused, SentencePaused>>, <<AccessControl, SentencePermissions>>,
      <<AlreadyClaimed, SentenceAlreadyClaimed>>,
      <<NothingToClaim, SentenceNothingToClaim>>,
      <<InsufficientBalance, SentenceInsufficient>>>>

\* The same with the deadline case, in the order the cases are tried.
AllMappings ==
    <<<<PausablePaused, SentencePaused>>, <<AccessControl, SentencePermissions>>,
      <<AlreadyClaimed, SentenceAlreadyClaimed>>,
      <<NothingToClaim, SentenceNothingToClaim>>,
      <<DeadlineNotReached, SentenceDeadline>>,
      <<InsufficientBalance, SentenceInsufficient>>>>

\* What a table of mappings asks of a call on an error whose message, if it
\* has one, is a string: the sentence of the first substring the message
\* contains, the message itself when it contains none, a string input
\* unchanged, and the unknown-error sentence for an input without message.
ClassifiedBy(mappings) ==
    LET m == errIn.message.str
        hit(i) == /\ Includes(m, mappings[i][1])
                  /\ \A j \in 1..(i - 1) : ~Includes(m, mappings[j][1])
    IN  /\ Returned(errOut)
        /\ errOut.value.type = "string"
        /\ IF errIn.type = "string" THEN errOut.value.str = errIn.str
           ELSE IF errIn.type = "object" /\ errIn.hasMessage
           THEN /\ \A i \in 1..Len(mappings) : hit(i) => errOut.value.str = mappings[i][2]
                /\ (\A i \in 1..Len(mappings) : ~Includes(m, mappings[i][1]))
                       => errOut.value.str = m
           ELSE errOut.value.str = SentenceUnknown

HasStringMessage ==
    (errIn.type = "object" /\ errIn.hasMessage) => errIn.message.type = "string"

\* C15 as stated: five known substrings map to their sentences, a message
\* containing none of the five is returned unchanged, a string input is
\* returned unchanged, an input without message gives "Unknown error occurred".
C15_FiveMappings ==
    (errOut.tag # "none" /\ HasStringMessage) => ClassifiedBy(ListedMappings)

\* C15 as amended: the known substrings are six, "Deadline not reached" ->
\* "Claim deadline has not been reached yet" among them, tried in the order
\* Pausable, AccessControl, Already claimed, Nothing to claim, Deadline not
\* reached, Insufficient balance; the first one contained decides.
C15_SixMappings ==
    (errOut.tag # "none" /\ HasStringMessage) => ClassifiedBy(AllMappings)

C15_Witness ==
    /\ Returned(errOut)
    /\ errIn.type = "object"
    /\ errIn.hasMessage
    /\ errIn.message.type = "string"
    /\ Includes(errIn.message.str, DeadlineNotReached)
    /\ Includes(errIn.message.str, InsufficientBalance)
    /\ errOut.value.str = SentenceDeadline

\* The remote calls made of a contract (the others are made of the wallet
\* client and the public client).
IsContractCall(call) == call.target \notin {"walletClient", "publicClient"}

\* C16: when a remote call of an operation fails, the caller receives a
\* ContractInteractionError with code CONTRACT_INTERACTION_ERROR whose
\* contractName and functionName are the contract and function of the call that
\* failed and whose originalError is the transport's failure, also in the
\* composite operations. (claimMultiple's claims, whose failures are skipped by
\* design, are left out.)
C16_ErrorNamesTheFailedCall ==
    \A c \in DOMAIN frame :
        LET f == frame[c] IN
        (f.pc = "done" /\ f.op # "claimMultiple" /\ f.failed) =>
            /\ Threw(f.out)
            /\ f.out.value.class = "ContractInteractionError"
            /\ f.out.value.code = "CONTRACT_INTERACTION_ERROR"
            /\ f.out.value.originalError = TransportError
            /\ IsContractCall(f.failedCall) =>
                   /\ f.out.value.contractName = f.failedCall.target
                   /\ f.out.value.functionName = f.failedCall.fn

\* The write transactions among the remote calls issued.
WritesIn(calls) == {i \in 1..Len(calls) : calls[i].kind = "write"}

\* C17: depositRevenue(amount) reads the caller's USDC balance first. A balance
\* below the amount ends the call with InsufficientBalanceError(required =
\* amount, available = the balance read, token "USDC", code
\* INSUFFICIENT_BALANCE), not wrapped, and no approve or deposit write is
\* issued; a balance of at least the amount raises no InsufficientBalanceError.
C17_DepositChecksBalanceFirst ==
    \A c \in DOMAIN frame :
        LET f == frame[c] IN
        (f.op = "depositRevenue" /\ Returned(f.balance)) =>
            IF f.balance.value < f.amount
            THEN /\ f.pc = "done"
                 /\ Threw(f.out)
                 /\ f.out.value = [class |-> "InsufficientBalanceError",
                                   code |-> "INSUFFICIENT_BALANCE",
                                   required |-> f.amount,
                                   available |-> f.balance.value, token |-> "USDC"]
                 /\ WritesIn(f.calls) = {}
                 /\ f.sent = 0
            ELSE ~(Threw(f.out) /\ f.out.value.class = "InsufficientBalanceError")

C17_Witness ==
    \E c \in DOMAIN frame :
        /\ frame[c].op = "depositRevenue"
        /\ frame[c].pc = "done"
        /\ frame[c].amount = 2
        /\ Returned(frame[c].balance)
        /\ frame[c].balance.value = 1
        /\ Threw(frame[c].out)
        /\ frame[c].out.value.class = "InsufficientBalanceError"

\* C18: on a client without wallet client each write operation (createSnapshot,
\* claim, claimMultiple, depositRevenue, fundDistribution, createDistribution)
\* fails with Error("Wallet client required for write operations") and issues
\* no remote call, read or write; the read operations do not fail so.
C18_WritesNeedWallet ==
    \A c \in DOMAIN frame :
        LET f == frame[c] IN
        (~wallet /\ f.pc # "idle") =>
            IF f.op \in WriteOps
            THEN /\ f.pc = "done"
                 /\ Threw(f.out)
                 /\ f.out.value = [class |-> "Error",
                                   message |-> "Wallet client required for write operations"]
                 /\ f.calls = <<>>
                 /\ f.sent = 0
            ELSE /\ f.calls # <<>>
                 /\ ~(Threw(f.out) /\ f.out.value.class = "Error")

C18_Witness ==
    \E c \in DOMAIN frame :
        /\ ~wallet
        /\ frame[c].op = "claimMultiple"
        /\ Len(frame[c].ids) = 2
        /\ frame[c].pc = "done"
        /\ Threw(frame[c].out)
        /\ frame[c].calls = <<>>

TakesSnapshotId ==
    {"getTokenBalanceAtSnapshot", "getClaimableAmount", "getDistributionInfo",
     "getUserInfo", "claim", "createDistribution"}

TakesAmount == {"depositRevenue", "fundDistribution", "createDistribution"}

\* C19: an operation given a snapshot id <= 0 (also as one of claimMultiple's
\* ids), or an amount <= 0, rejects it before any remote call is issued.
C19_ValidatedBeforeAnyCall ==
    \A c \in DOMAIN frame :
        LET f == frame[c]
            invalid == \/ f.op \in TakesSnapshotId /\ f.snapshotId <= 0
                       \/ f.op \in TakesAmount /\ f.amount <= 0
                       \/ f.op = "claimMultiple"
                              /\ \E i \in 1..Len(f.ids) : f.ids[i] <= 0
        IN  (f.pc # "idle" /\ invalid) =>
                (f.pc = "done" /\ Threw(f.out) /\ f.calls = <<>> /\ f.sent = 0)

\* C20: claimMultiple(ids) with a non-empty list sends exactly one write
\* transaction for the whole batch, however many ids it has.
C20_BatchIsOneTransaction ==
    \A c \in DOMAIN frame :
        LET f == frame[c] IN
        (f.op = "claimMultiple" /\ f.pc = "done" /\ Returned(f.out) /\ f.ids # <<>>) =>
            f.sent = 1

\* ------------------------------------------------------------ validators
HexDigitChars ==
    <<"0", "1", "2", "3", "4", "5", "6", "7", "8", "9",
      "a", "b", "c", "d", "e", "f", "A", "B", "C", "D", "E", "F">>

\* The text handed in is "0x" followed by exactly `digits` hexadecimal digits:
\* its body is `len` characters, all "a" but the one character `ch`.
WellFormedHex(in, digits) ==
    /\ in.prefix = <<"0", "x">>
    /\ in.len = digits
    /\ \E i \in 1..Len(HexDigitChars) : in.ch = HexDigitChars[i]

\* C21: isValidAddress(text) is true iff text is exactly "0x" followed by
\* exactly 40 hexadecimal digits of either case, and isValidHash(text) is true
\* iff text is exactly "0x" followed by exactly 64 hexadecimal digits; another
\* length, a missing prefix or a non-hex character gives false.
C21_HexPatternsAreExact ==
    Returned(validOut) =>
        /\ validOut.value.fn = "isValidAddress" =>
               (validOut.value.value <=> WellFormedHex(validIn.text, 40))
        /\ validOut.value.fn = "isValidHash" =>
               (validOut.value.value <=> WellFormedHex(validIn.text, 64))

C21_Witness ==
    /\ Returned(validOut)
    /\ validOut.value.fn = "isValidAddress"
    /\ validOut.value.value
    /\ validIn.text.ch = "E"
    /\ Len(validIn.text.text) = 42

\* C22: validateSnapshotId(id) is true iff id > 0 and validateAmount(amount)
\* is true iff amount > 0, for every integer input, zero and negatives included.
C22_PositiveOnly ==
    Returned(validOut) =>
        /\ validOut.value.fn = "validateSnapshotId" =>
               (validOut.value.value <=> validIn.n \in 1..MaxMagnitude)
        /\ validOut.value.fn = "validateAmount" =>
               (validOut.value.value <=> validIn.n \in 1..MaxMagnitude)

C22_Witness ==
    /\ Returned(validOut)
    /\ validOut.value.fn = "validateSnapshotId"
    /\ validIn.n = 0
    /\ ~validOut.value.value

\* ---------------------------------------------------------------- factory
\* C23: the addresses of the client createENR1MClient builds are the chain's
\* defaults overridden key by key by config.addresses: a key the caller
\* supplies has the caller's value, a key not supplied keeps the chain default.
C23_AddressesOverrideDefaults ==
    Returned(factoryOut) =>
        LET defaults == CHAIN_CONFIGS[factoryIn.chainId]
            supplied == factoryIn.addresses
            built    == factoryOut.value
        IN  /\ DOMAIN built = DOMAIN defaults \cup DOMAIN supplied
            /\ \A k \in DOMAIN supplied : built[k] = supplied[k]
            /\ \A k \in DOMAIN defaults \ DOMAIN supplied : built[k] = defaults[k]

C23_Witness ==
    /\ Returned(factoryOut)
    /\ factoryIn.chainId = 31337
    /\ DOMAIN factoryIn.addresses = {"token"}
    /\ factoryOut.value["token"] = "0x1234567890123456789012345678901234567890"
    /\ factoryOut.value["usdc"] = "0x5FbDB2315678afecb367f032d93F642f64180aa3"

\* ----------------------------------------------------------------- claim
ClaimWriteCall == RemoteCall("Distributor", "claim", "write")

InCalls(f, call) == \E i \in 1..Len(f.calls) : f.calls[i] = call

\* The three pre-check reads of the claim are in.
PreChecksRead(f) == \A r \in ClaimReads : Returned(f.reads[r])

\* ... and they allow the claim: not claimed, something to claim, active.
PreChecksPassed(f) ==
    /\ PreChecksRead(f)
    /\ ~f.reads.claimed.value
    /\ f.reads.claimable.value > 0
    /\ f.reads.info.value.isActive

\* C24: claim(snapshotId) issues the claim write only after its three pre-check
\* reads (claimable amount, claimed flag, distribution info) have completed,
\* and only when they read not claimed, an amount > 0 and an active
\* distribution; when a condition fails or a read fails, no write is issued.
C24_WriteOnlyAfterPreChecks ==
    \A c \in DOMAIN frame :
        LET f == frame[c] IN
        (f.op \in {"claim", "claimMultiple"}) =>
            /\ InCalls(f, ClaimWriteCall) =>
                /\ PreChecksPassed(f)
                /\ SubSeq(f.calls, 1, 5) =
                       <<GetAddresses, ClaimReadCall("claimable"),
                         ClaimReadCall("claimed"), ClaimReadCall("info"),
                         ClaimWriteCall>>
            /\ (f.op = "claim" /\ f.pc = "done" /\ ~PreChecksPassed(f)) =>
                   (~InCalls(f, ClaimWriteCall) /\ f.sent = 0)

\* A claim whose write is out, its three reads having passed.
C24_Witness ==
    \E c \in DOMAIN frame :
        /\ frame[c].op = "claim"
        /\ frame[c].pc = "claim.receipt"
        /\ frame[c].sent = 1
        /\ PreChecksPassed(frame[c])

\* The pre-check reads are in and only the distribution's activity fails.
DeadlineCase(f) ==
    /\ PreChecksRead(f)
    /\ ~f.reads.claimed.value
    /\ f.reads.claimable.value > 0
    /\ ~f.reads.info.value.isActive

\* C25: claim(snapshotId) of a client with wallet client throws
\* ClaimDeadlinePassedError (not wrapped, with the snapshot id, the deadlineAt
\* read and code CLAIM_DEADLINE_PASSED) exactly when the reads succeed with
\* claimed = false, claimable > 0 and isActive = false; every other failure
\* of it, already-claimed and nothing-to-claim included, is a
\* ContractInteractionError of contract "Distributor", function "claim".
C25_DeadlineErrorExactlyWhenInactive ==
    \A c \in DOMAIN frame :
        LET f == frame[c] IN
        (f.op = "claim" /\ f.pc = "done" /\ wallet) =>
            IF DeadlineCase(f)
            THEN /\ Threw(f.out)
                 /\ f.out.value.class = "ClaimDeadlinePassedError"
                 /\ f.out.value.code = "CLAIM_DEADLINE_PASSED"
                 /\ f.out.value.snapshotId = f.snapshotId
                 /\ f.out.value.deadline = f.reads.info.value.deadlineAt
            ELSE Threw(f.out) =>
                 /\ f.out.value.class = "ContractInteractionError"
                 /\ f.out.value.contractName = "Distributor"
                 /\ f.out.value.functionName = "claim"

\* C28: a successful claim(snapshotId) returns the id asked for, the first
\* address of the wallet client, the hash of the claim write, and as amount the
\* claimable amount its pre-check read before the write, a value > 0.
C28_ResultCarriesPreCheckAmount ==
    \A c \in DOMAIN frame :
        LET f == frame[c] IN
        (f.op = "claim" /\ f.pc = "done" /\ Returned(f.out)) =>
            /\ f.out.value.snapshotId = f.snapshotId
            /\ f.out.value.user = Account
            /\ f.out.value.transactionHash = TxHash("claim", <<f.snapshotId>>)
            /\ f.out.value.transactionHash = f.hash.value
            /\ Returned(f.reads.claimable)
            /\ f.out.value.amount = f.reads.claimable.value
            /\ f.out.value.amount > 0

C28_Witness ==
    \E c \in DOMAIN frame :
        /\ frame[c].op = "claim"
        /\ frame[c].pc = "done"
        /\ Returned(frame[c].out)
        /\ frame[c].out.value.amount = 1
        /\ frame[c].out.value.snapshotId = 2

\* ---------------------------------------------------------- depositRevenue
\* The remote calls of a depositRevenue that runs to its end.
DepositOrder ==
    <<GetAddresses, RemoteCall("USDC", "balanceOf", "read"),
      RemoteCall("USDC", "approve", "write"), WaitForReceipt,
      RemoteCall("RevenueVault", "deposit", "write"), WaitForReceipt>>

IsPrefix(p, q) == Len(p) <= Len(q) /\ SubSeq(q, 1, Len(p)) = p

\* C26: depositRevenue(amount) reads the balance, approves the vault for
\* exactly amount, waits for the approve receipt, deposits amount and waits for
\* the deposit receipt, in this order; the deposit is not sent before the
\* approve receipt is in, the hash returned is the deposit's, and when approve
\* or its receipt fails no deposit is sent.
C26_DepositStepsInOrder ==
    \A c \in DOMAIN frame :
        LET f == frame[c]
            deposit == RemoteCall("RevenueVault", "deposit", "write")
        IN
        (f.op = "depositRevenue") =>
            /\ IsPrefix(f.calls, DepositOrder)
            /\ f.pc = "deposit.approveReceipt" =>
                   f.hash.value = TxHash("approve", <<f.amount>>)
            /\ InCalls(f, deposit) => f.sent >= 1
            /\ (f.pc = "done" /\ Returned(f.out)) =>
                   /\ f.out.value = TxHash("deposit", <<f.amount>>)
                   /\ f.calls = DepositOrder
                   /\ f.sent = 2
            /\ (f.pc = "done" /\ f.failed /\ Len(f.calls) <= 4) =>
                   (~InCalls(f, deposit) /\ f.sent <= 1)

\* A deposit that ran to its end.
C26_Witness ==
    \E c \in DOMAIN frame :
        /\ frame[c].op = "depositRevenue"
        /\ frame[c].pc = "done"
        /\ Returned(frame[c].out)
        /\ frame[c].out.value.fn = "deposit"
        /\ frame[c].amount = 2

\* ----------------------------------------------------------- claimMultiple
ClaimPcs == {"claim.getAddresses", "claim.reads", "claim.write", "claim.receipt"}

Priority ==
    <<PausablePaused, AccessControl, AlreadyClaimed, NothingToClaim,
      DeadlineNotReached, InsufficientBalance>>

Sentences ==
    <<SentencePaused, SentencePermissions, SentenceAlreadyClaimed,
      SentenceNothingToClaim, SentenceDeadline, SentenceInsufficient>>

\* The known substrings a message contains, by their rank.
KnownIn(m) == {i \in 1..Len(Priority) : Includes(m, Priority[i])}

Least(S) == CHOOSE i \in S : \A j \in S : i <= j

\* C27: of several known substrings in a message the one first in the order
\* "Pausable: paused", "AccessControl:", "Already claimed", "Nothing to claim",
\* "Deadline not reached", "Insufficient balance" decides the sentence, wherever
\* in the message they stand; matching is case-sensitive ("already claimed" is
\* no known substring).
C27_FirstInPriorityDecides ==
    (Returned(errOut) /\ errIn.type = "object" /\ errIn.hasMessage
         /\ errIn.message.type = "string") =>
        LET m == errIn.message.str IN
        /\ errOut.value.type = "string"
        /\ KnownIn(m) # {} => errOut.value.str = Sentences[Least(KnownIn(m))]
        /\ (KnownIn(m) = {} /\ Includes(m, LowerAlreadyClaimed)) => errOut.value.str = m

\* "AccessControl:" stands before "Pausable: paused" in the message, and after it
\* in the order.
C27_Witness ==
    /\ Returned(errOut)
    /\ errIn.type = "object"
    /\ errIn.hasMessage
    /\ errIn.message.type = "string"
    /\ errIn.message.str = AccessControl \o PausablePaused
    /\ errOut.value.str = SentencePaused

\* ------------------------------------------------------ overlapping claims
IsClaimFailure(e) ==
    /\ e.class = "ContractInteractionError"
    /\ e.contractName = "Distributor"
    /\ e.functionName = "claim"

====
